---- MODULE Spec2Model ----
(***************************************************************************)
(* A model of sanitize-ofx.py: the QIF record reformatter and the OFX      *)
(* repair / enrichment / serialization pipeline, with the normalization    *)
(* primitives both engines share.                                          *)
(*                                                                         *)
(* Text is a sequence of one-character strings.  A raised Python exception *)
(* is the value ValueError, which no text equals.                          *)
(*                                                                         *)
(* An operator that reads an argument more than once binds it through a    *)
(* one-element set (CHOOSE r \in {e(s) : s \in {s0}} : TRUE is e(s0)), so  *)
(* that the argument is evaluated once however deep the calls nest.        *)
(***************************************************************************)
EXTENDS Integers, Sequences, FiniteSets, TLC

VARIABLES
    pc,       \* position of the program (or of the function under check)
    arg,      \* the argument of the function under check
    ret,      \* the value returned (or ValueError when it raised)
    text,     \* sanitize_file: the text read from the input file
    lines,    \* sanitize_qif: the stripped lines of the input
    idx,      \* sanitize_qif: the loop's position in lines
    buffer,   \* sanitize_qif: the lines of the record being collected
    output,   \* sanitize_qif: the lines emitted so far
    header,   \* sanitize_qif: the last header emitted (<<>> is None)
    result,   \* the sanitized text returned to the caller
    body,     \* sanitize_ofx: the repaired text handed to the parser
    tree,     \* sanitize_ofx: the element tree (root)
    parsed,   \* the tree as the parser returned it, before enrichment
    clock     \* the position in Timestamps utcnow() last showed, 0 before

fnVars == <<arg, ret>>
qifVars == <<lines, idx, buffer, output, header>>
ofxVars == <<body, tree, parsed, clock>>
vars == <<pc, arg, ret, text, lines, idx, buffer, output, header, result,
          body, tree, parsed, clock>>

(***************************************************************************)
(* Characters and text                                                     *)
(***************************************************************************)
Digits == {"0", "1", "2", "3", "4", "5", "6", "7", "8", "9"}

DigitVal(c) ==
    CASE c = "0" -> 0 [] c = "1" -> 1 [] c = "2" -> 2 [] c = "3" -> 3
      [] c = "4" -> 4 [] c = "5" -> 5 [] c = "6" -> 6 [] c = "7" -> 7
      [] c = "8" -> 8 [] c = "9" -> 9

DigitChar(n) ==
    CASE n = 0 -> "0" [] n = 1 -> "1" [] n = 2 -> "2" [] n = 3 -> "3"
      [] n = 4 -> "4" [] n = 5 -> "5" [] n = 6 -> "6" [] n = 7 -> "7"
      [] n = 8 -> "8" [] n = 9 -> "9"

\* The characters str.strip() and the regex class \s treat as whitespace.
Whitespace == {" ", "\t", "\n", "\r"}

\* Characters outside 7-bit ASCII, named by code point: e-acute and its
\* capital, the combining acute accent, the euro sign and the fi ligature.
NonAscii == {"U00E9", "U00C9", "U0301", "U20AC", "UFB01"}

\* The exception a failed float() raises.
ValueError == <<"!ValueError">>

RECURSIVE Flatten(_)
\* The concatenation of a sequence of sequences (by halves, so that long
\* texts do not nest deeply).
Flatten(ss0) ==
    CHOOSE r \in
        { IF Len(ss) = 0 THEN <<>>
          ELSE IF Len(ss) = 1 THEN ss[1]
          ELSE Flatten(SubSeq(ss, 1, Len(ss) \div 2))
               \o Flatten(SubSeq(ss, Len(ss) \div 2 + 1, Len(ss)))
          : ss \in {ss0} } : TRUE

\* The characters of s that are in the set keep, in order.
Filter(s0, keep) ==
    CHOOSE r \in
        { Flatten([i \in 1..Len(s) |-> IF s[i] \in keep THEN <<s[i]>> ELSE <<>>])
          : s \in {s0} } : TRUE

\* str.replace(c, ""): s without the characters in the set drop.
Remove(s0, drop) ==
    CHOOSE r \in
        { Flatten([i \in 1..Len(s) |-> IF s[i] \in drop THEN <<>> ELSE <<s[i]>>])
          : s \in {s0} } : TRUE

\* str.lstrip()
LStrip(s0) ==
    CHOOSE r \in
        { IF \A i \in 1..Len(s) : s[i] \in Whitespace THEN <<>>
          ELSE SubSeq(s, CHOOSE i \in 1..Len(s) :
                            /\ s[i] \notin Whitespace
                            /\ \A j \in 1..(i - 1) : s[j] \in Whitespace,
                      Len(s))
          : s \in {s0} } : TRUE

\* str.rstrip()
RStrip(s0) ==
    CHOOSE r \in
        { IF \A i \in 1..Len(s) : s[i] \in Whitespace THEN <<>>
          ELSE SubSeq(s, 1, CHOOSE i \in 1..Len(s) :
                               /\ s[i] \notin Whitespace
                               /\ \A j \in (i + 1)..Len(s) : s[j] \in Whitespace)
          : s \in {s0} } : TRUE

\* str.strip()
Strip(s) == RStrip(LStrip(s))

Range(s) == {s[i] : i \in 1..Len(s)}

AllIn(s0, set) == \A s \in {s0} : \A i \in 1..Len(s) : s[i] \in set

RECURSIVE Pow10(_)
Pow10(n0) ==
    CHOOSE r \in {IF n = 0 THEN 1 ELSE 10 * Pow10(n - 1) : n \in {n0}} : TRUE

RECURSIVE DigitsToNat(_)
DigitsToNat(s0) ==
    CHOOSE r \in
        { IF s = <<>> THEN 0
          ELSE 10 * DigitsToNat(SubSeq(s, 1, Len(s) - 1)) + DigitVal(s[Len(s)])
          : s \in {s0} } : TRUE

RECURSIVE NatToDigits(_)
NatToDigits(n0) ==
    CHOOSE r \in
        { IF n < 10 THEN <<DigitChar(n)>>
          ELSE NatToDigits(n \div 10) \o <<DigitChar(n % 10)>>
          : n \in {n0} } : TRUE

(***************************************************************************)
(* _sanitize_amount                                                        *)
(***************************************************************************)
\* Position of the first "." of s, or 0.
DotAt(s) ==
    IF \E i \in 1..Len(s) : s[i] = "."
    THEN CHOOSE i \in 1..Len(s) : s[i] = "." /\ \A j \in 1..(i - 1) : s[j] # "."
    ELSE 0

NoFloat == [ok |-> FALSE, neg |-> FALSE, mant |-> 0, scale |-> 0]

\* The digits of a float literal after its sign: digits with at most one
\* "." and at least one digit.
FloatBody(neg, rest, dot) ==
    LET ip == IF dot = 0 THEN rest ELSE SubSeq(rest, 1, dot - 1)
        fp == IF dot = 0 THEN <<>> ELSE SubSeq(rest, dot + 1, Len(rest))
    IN  IF AllIn(ip, Digits) /\ AllIn(fp, Digits) /\ Len(ip) + Len(fp) > 0
        THEN [ok |-> TRUE, neg |-> neg, mant |-> DigitsToNat(ip \o fp),
              scale |-> Len(fp)]
        ELSE NoFloat

\* float(s) for text over digits, ".", "-", "+" and whitespace: surrounding
\* whitespace is ignored, one sign may lead, and what follows is digits with
\* at most one "." and at least one digit.  (Exponents, "inf", "nan" and
\* digit-group underscores need characters the inputs here do not contain.)
\* The value is sign * mant / 10^scale; ok = FALSE is float's ValueError.
ParseFloat(s) ==
    CHOOSE r \in
        { CHOOSE q \in
            { FloatBody(t # <<>> /\ Head(t) = "-", rest, DotAt(rest))
              : rest \in {IF t # <<>> /\ Head(t) \in {"-", "+"} THEN Tail(t) ELSE t} } : TRUE
          : t \in {Strip(s)} } : TRUE

\* f"{value:.2f}": the value rounded to hundredths (the digit pools of the
\* inputs avoid exact ties, where the binary value would decide), the sign
\* kept even for a zero ("-0.00").
FormatTwoDecimals(v0) ==
    CHOOSE r \in
        { CHOOSE q \in
            { (IF v.neg THEN <<"-">> ELSE <<>>)
              \o NatToDigits(cents \div 100)
              \o <<".", DigitChar((cents % 100) \div 10), DigitChar(cents % 10)>>
              : cents \in {(v.mant * 100 + Pow10(v.scale) \div 2) \div Pow10(v.scale)} } : TRUE
          : v \in {v0} } : TRUE

\* Lines 88-94: float(cleaned), and in the except branch the float() of
\* what is left of cleaned after removing every character that is not a
\* digit, "." or "-"; that second float() is not guarded.
CoerceAmount(cleaned) ==
    CHOOSE r \in
        { IF first.ok THEN FormatTwoDecimals(first)
          ELSE CHOOSE q \in
            { IF coerced = <<>> THEN <<"0", ".", "0", "0">>
              ELSE CHOOSE p \in
                { IF second.ok THEN FormatTwoDecimals(second) ELSE ValueError
                  : second \in {ParseFloat(coerced)} } : TRUE
              : coerced \in {Filter(cleaned, Digits \cup {".", "-"})} } : TRUE
          : first \in {ParseFloat(cleaned)} } : TRUE

\* _sanitize_amount(raw): the text returned, or ValueError when the float()
\* of the except branch (line 92) raises out of the function.
SanitizeAmount(raw) ==
    CHOOSE r \in
        { IF cleaned \in {<<>>, <<"-">>} THEN <<"0", ".", "0", "0">>
          ELSE CoerceAmount(cleaned)
          : cleaned \in {Remove(Remove(Strip(raw), {","}), {"+"})} } : TRUE

(***************************************************************************)
(* _ascii, _trim                                                           *)
(***************************************************************************)
\* unicodedata.normalize("NFKD", c) for one character: e-acute decomposes
\* to "e" and the combining accent, the fi ligature to "f" and "i".
Nfkd(c) ==
    CASE c = "U00E9" -> <<"e", "U0301">>
      [] c = "U00C9" -> <<"E", "U0301">>
      [] c = "UFB01" -> <<"f", "i">>
      [] OTHER -> <<c>>

Normalize(s0) ==
    CHOOSE r \in {Flatten([i \in 1..Len(s) |-> Nfkd(s[i])]) : s \in {s0}} : TRUE

\* .encode("ascii", "ignore").decode("ascii", "ignore")
AsciiOnly(s) == Remove(s, NonAscii)

\* str.replace(c, " ") for every c in the set from.
ReplaceBySpace(s0, from) ==
    CHOOSE r \in
        { [i \in 1..Len(s) |-> IF s[i] \in from THEN " " ELSE s[i]]
          : s \in {s0} } : TRUE

\* re.sub(r"\s+", " ", s): the first character of a whitespace run becomes
\* one space, the rest of the run goes.
CollapseWhitespace(s0) ==
    CHOOSE r \in
        { Flatten([i \in 1..Len(s) |->
              IF s[i] \notin Whitespace THEN <<s[i]>>
              ELSE IF i > 1 /\ s[i - 1] \in Whitespace THEN <<>> ELSE <<" ">>])
          : s \in {s0} } : TRUE

\* _ascii(text)
Ascii(s) ==
    Strip(CollapseWhitespace(
        ReplaceBySpace(ReplaceBySpace(AsciiOnly(Normalize(s)), {"\r", "\n"}), {"^"})))

\* A cut one character too late.
TrimOneTooMany(s0, limit) ==
    CHOOSE r \in
        { IF Len(s) <= limit THEN s ELSE SubSeq(s, 1, limit + 1) : s \in {s0} } : TRUE

\* _trim(text, limit)
Trim(s0, limit) ==
    CHOOSE r \in
        { IF Len(s) <= limit THEN s ELSE SubSeq(s, 1, limit) : s \in {s0} } : TRUE

PAYEE_LIMIT == 80
MEMO_LIMIT == 120
ADDRESS_LIMIT == 35

(***************************************************************************)
(* _sanitize_date                                                          *)
(***************************************************************************)
\* The part of s before the k-th separator, whose positions are at.
PartOf(s, at, k) ==
    SubSeq(s, (IF k = 1 THEN 1 ELSE at[k - 1] + 1),
              (IF k > Len(at) THEN Len(s) ELSE at[k] - 1))

\* str.split(sep): the parts of s between occurrences of the character sep.
SplitOn(s0, sep) ==
    CHOOSE r \in
        { CHOOSE q \in
            { [k \in 1..(Len(at) + 1) |-> PartOf(s, at, k)]
              : at \in {Flatten([i \in 1..Len(s) |-> IF s[i] = sep THEN <<i>> ELSE <<>>])} } : TRUE
          : s \in {s0} } : TRUE

IsLeap(y) == (y % 4 = 0 /\ y % 100 # 0) \/ y % 400 = 0

DaysIn(y, m) ==
    IF m = 2 THEN (IF IsLeap(y) THEN 29 ELSE 28)
    ELSE IF m \in {4, 6, 9, 11} THEN 30 ELSE 31

\* strptime's %m: 1[0-2]|0[1-9]|[1-9]
MonthField(f) == Len(f) \in {1, 2} /\ AllIn(f, Digits) /\ DigitsToNat(f) \in 1..12

\* strptime's %d: 3[01]|[12]\d|0[1-9]|[1-9]| [1-9]
DayField(f) ==
    \/ Len(f) \in {1, 2} /\ AllIn(f, Digits) /\ DigitsToNat(f) \in 1..31
    \/ Len(f) = 2 /\ f[1] = " " /\ f[2] \in Digits \ {"0"}

DayVal(f) == IF f[1] = " " THEN DigitVal(f[2]) ELSE DigitsToNat(f)

\* strptime's %Y (four digits; datetime has no year 0) and %y (two digits).
Year4Field(f) == Len(f) = 4 /\ AllIn(f, Digits) /\ DigitsToNat(f) >= 1
Year2Field(f) == Len(f) = 2 /\ AllIn(f, Digits)

\* %y: 69..99 are 1969..1999, 00..68 are 2000..2068.
Year2Val(f) == IF DigitsToNat(f) >= 69 THEN 1900 + DigitsToNat(f) ELSE 2000 + DigitsToNat(f)

NoDate == [ok |-> FALSE, y |-> 0, m |-> 0, d |-> 0]

\* The date of three fields that match their directives, when it is a
\* day of the calendar.
DateOf(y, m, d) ==
    IF d <= DaysIn(y, m) THEN [ok |-> TRUE, y |-> y, m |-> m, d |-> d] ELSE NoDate

\* One strptime attempt: the text split on sep into three fields, the
\* fields in the order given by (yi, mi, di), the year of 4 or of 2 digits.
TryPattern(t, sep, yi, mi, di, longYear) ==
    CHOOSE r \in
        { IF Len(f) # 3 THEN NoDate
          ELSE IF ~(MonthField(f[mi]) /\ DayField(f[di])
                    /\ (IF longYear THEN Year4Field(f[yi]) ELSE Year2Field(f[yi])))
          THEN NoDate
          ELSE CHOOSE q \in
            { DateOf(y, m, d)
              : y \in {IF longYear THEN DigitsToNat(f[yi]) ELSE Year2Val(f[yi])},
                m \in {DigitsToNat(f[mi])},
                d \in {DayVal(f[di])} } : TRUE
          : f \in {SplitOn(t, sep)} } : TRUE

\* The candidates with day/month tried before month/day.
DateCandidatesDayFirst(t) ==
    << TryPattern(t, "/", 3, 2, 1, TRUE),
       TryPattern(t, "/", 3, 1, 2, TRUE),
       TryPattern(t, "/", 3, 1, 2, FALSE),
       TryPattern(t, "-", 1, 2, 3, TRUE),
       TryPattern(t, "-", 3, 2, 1, TRUE) >>

\* The candidates of line 72, in order: %m/%d/%Y, %m/%d/%y, %Y-%m-%d,
\* %d/%m/%Y, %d-%m-%Y.
DateCandidates(t) ==
    << TryPattern(t, "/", 3, 1, 2, TRUE),
       TryPattern(t, "/", 3, 1, 2, FALSE),
       TryPattern(t, "-", 1, 2, 3, TRUE),
       TryPattern(t, "/", 3, 2, 1, TRUE),
       TryPattern(t, "-", 3, 2, 1, TRUE) >>

TwoDigits(n) == <<DigitChar((n \div 10) % 10), DigitChar(n % 10)>>

\* The day written before the month.
LegacyDateDayFirst(p) == TwoDigits(p.d) \o <<"/">> \o TwoDigits(p.m) \o <<"'">> \o TwoDigits(p.y % 100)

\* strftime("%m/%d'%y")
LegacyDate(p) == TwoDigits(p.m) \o <<"/">> \o TwoDigits(p.d) \o <<"'">> \o TwoDigits(p.y % 100)

\* The first candidate that parsed, formatted; the trimmed text when none did.
FirstParsed(t, c) ==
    IF \E i \in 1..Len(c) : c[i].ok
    THEN LegacyDate(c[CHOOSE i \in 1..Len(c) : c[i].ok /\ \A j \in 1..(i - 1) : ~c[j].ok])
    ELSE t

\* _sanitize_date(raw)
SanitizeDate(raw) ==
    CHOOSE r \in
        { CHOOSE q \in {FirstParsed(t, c) : c \in {DateCandidates(t)}} : TRUE
          : t \in {Strip(raw)} } : TRUE

(***************************************************************************)
(* _format_qif_record                                                      *)
(***************************************************************************)
ALLOWED_QIF_TAGS == {"D", "T", "P", "M", "L", "N", "A", "S", "E", "O", "$", "^"}

\* record[tag]: the values (entry[1:]) of the entries whose first
\* character is tag, in order; <<>> when the tag is not in the record.
ValuesOf(entries, tag) ==
    Flatten([i \in 1..Len(entries) |->
        IF entries[i] # <<>> /\ entries[i][1] = tag
        THEN <<Tail(entries[i])>> ELSE <<>>])

\* The record dictionary of lines 105-114: only allowed tags are stored.
QifRecord(entries0) ==
    CHOOSE r \in
        { [t \in ALLOWED_QIF_TAGS |-> ValuesOf(entries, t)] : entries \in {entries0} } : TRUE

Max(a, b) == IF a >= b THEN a ELSE b

\* The single fields with the amount before the date.
SingleFieldsAmountFirst(record) ==
    (IF record["T"] # <<>> THEN << <<"T">> \o SanitizeAmount(record["T"][1]) >> ELSE <<>>)
    \o (IF record["D"] # <<>> THEN << <<"D">> \o SanitizeDate(record["D"][1]) >> ELSE <<>>)
    \o (IF record["P"] # <<>> THEN << <<"P">> \o Trim(Ascii(record["P"][1]), PAYEE_LIMIT) >> ELSE <<>>)
    \o (IF record["M"] # <<>> THEN << <<"M">> \o Trim(Ascii(record["M"][1]), MEMO_LIMIT) >> ELSE <<>>)
    \o (IF record["L"] # <<>> THEN << <<"L">> \o Ascii(record["L"][1]) >> ELSE <<>>)
    \o (IF record["N"] # <<>> THEN << <<"N">> \o Ascii(record["N"][1]) >> ELSE <<>>)

\* First values of the single fields, lines 117-134.
SingleFields(record) ==
    (IF record["D"] # <<>> THEN << <<"D">> \o SanitizeDate(record["D"][1]) >> ELSE <<>>)
    \o (IF record["T"] # <<>> THEN << <<"T">> \o SanitizeAmount(record["T"][1]) >> ELSE <<>>)
    \o (IF record["P"] # <<>> THEN << <<"P">> \o Trim(Ascii(record["P"][1]), PAYEE_LIMIT) >> ELSE <<>>)
    \o (IF record["M"] # <<>> THEN << <<"M">> \o Trim(Ascii(record["M"][1]), MEMO_LIMIT) >> ELSE <<>>)
    \o (IF record["L"] # <<>> THEN << <<"L">> \o Ascii(record["L"][1]) >> ELSE <<>>)
    \o (IF record["N"] # <<>> THEN << <<"N">> \o Ascii(record["N"][1]) >> ELSE <<>>)

\* Every address line, lines 136-138.
AddressFields(record) ==
    [i \in 1..Len(record["A"]) |-> <<"A">> \o Trim(Ascii(record["A"][i]), ADDRESS_LIMIT)]

\* Lines 146-151 for one split tag at one index: nothing when the tag has
\* no value at that index.
SplitValueAt(record, tag, index) ==
    IF index <= Len(record[tag])
    THEN << <<tag>> \o (IF tag = "$"
                        THEN SanitizeAmount(Ascii(record[tag][index]))
                        ELSE Ascii(record[tag][index])) >>
    ELSE <<>>

\* The inner loop of lines 145-151 for one index: the value each split tag
\* has at that index, in the order S, E, O, $.
SplitsAt(record, index) ==
    SplitValueAt(record, "S", index) \o SplitValueAt(record, "E", index)
    \o SplitValueAt(record, "O", index) \o SplitValueAt(record, "$", index)

\* Lines 141-152: index runs to the largest number of values of a split tag.
SplitFields(record) ==
    Flatten([index \in 1..Max(Max(Len(record["S"]), Len(record["E"])),
                              Max(Len(record["O"]), Len(record["$"])))
             |-> SplitsAt(record, index)])

\* A line holds the ValueError of a _sanitize_amount call that raised.
Raised(formatted) ==
    \E i \in 1..Len(formatted) : \E j \in 1..Len(formatted[i]) :
        formatted[i][j] = ValueError[1]

\* _format_qif_record(lines): the formatted lines, or ValueError when a
\* _sanitize_amount call (T, or a split's $) raises.
FormatQifRecord(entries) ==
    CHOOSE r \in
        { CHOOSE q \in
            { IF Raised(formatted) THEN ValueError ELSE formatted
              : formatted \in {SingleFields(record) \o AddressFields(record)
                               \o SplitFields(record)} } : TRUE
          : record \in {QifRecord(entries)} } : TRUE

(***************************************************************************)
(* sanitize_qif helpers                                                    *)
(***************************************************************************)
\* text.replace("\r\n", "\n").replace("\r", "\n"): a "\n" right after a
\* "\r" goes with it, and every "\r" becomes "\n".
NormalizeNewlines(s0) ==
    CHOOSE r \in
        { Flatten([i \in 1..Len(s) |->
              IF s[i] = "\r" THEN <<"\n">>
              ELSE IF s[i] = "\n" /\ i > 1 /\ s[i - 1] = "\r" THEN <<>>
              ELSE <<s[i]>>])
          : s \in {s0} } : TRUE

\* [line.strip() for line in content.split("\n")]
StrippedLines(s) ==
    CHOOSE r \in
        { [i \in 1..Len(parts) |-> Strip(parts[i])]
          : parts \in {SplitOn(NormalizeNewlines(s), "\n")} } : TRUE

StartsWith(s, prefix) ==
    Len(s) >= Len(prefix) /\ SubSeq(s, 1, Len(prefix)) = prefix

LowerLetters == <<"a", "b", "c", "d", "e", "f", "g", "h", "i", "j", "k", "l", "m",
                  "n", "o", "p", "q", "r", "s", "t", "u", "v", "w", "x", "y", "z">>
UpperLetters == <<"A", "B", "C", "D", "E", "F", "G", "H", "I", "J", "K", "L", "M",
                  "N", "O", "P", "Q", "R", "S", "T", "U", "V", "W", "X", "Y", "Z">>

\* str.upper() of one character: e-acute has a capital, the fi ligature
\* becomes the two letters FI.
UpperChar(c) ==
    IF \E i \in 1..26 : LowerLetters[i] = c
    THEN <<UpperLetters[CHOOSE i \in 1..26 : LowerLetters[i] = c]>>
    ELSE IF c = "U00E9" THEN <<"U00C9">>
    ELSE IF c = "UFB01" THEN <<"F", "I">>
    ELSE <<c>>

Upper(s0) ==
    CHOOSE r \in {Flatten([i \in 1..Len(s) |-> UpperChar(s[i])]) : s \in {s0}} : TRUE

TypePrefix == <<"!", "T", "y", "p", "e">>

BANK == <<"B", "A", "N", "K">>

\* Line 172: the text after the first ":" of the line, stripped and
\* upper-cased, or BANK when the line has no ":".
HeaderValue(line, parts) ==
    IF Len(parts) > 1
    THEN Upper(Strip(SubSeq(line, Len(parts[1]) + 2, Len(line))))
    ELSE BANK

\* The header with its value as it was written.
HeaderLineAsWritten(line) ==
    CHOOSE r \in
        { TypePrefix \o <<":">> \o (IF Len(parts) > 1 THEN parts[2] ELSE BANK)
          : parts \in {SplitOn(line, ":")} } : TRUE

\* Lines 172-173: the header line emitted for a line starting with !Type.
HeaderLine(line) ==
    CHOOSE r \in
        { TypePrefix \o <<":">> \o (IF value = <<>> THEN BANK ELSE value)
          : value \in {HeaderValue(line, SplitOn(line, ":"))} } : TRUE

\* The record appended without its delimiter.
EmitRecordWithoutDelimiter(out, formatted) == out \o formatted

\* Lines 169-170, 178-181 and 187-188: the formatted record is appended to
\* the output, and the "^" line after it.
EmitRecord(out, formatted) == out \o formatted \o << <<"^">> >>

\* The lines ended by a bare line feed.
JoinLF(ls) ==
    IF ls = <<>> THEN <<"\n">>
    ELSE Flatten([i \in 1..Len(ls) |-> ls[i] \o <<"\n">>])

\* "\r\n".join(lines) + "\r\n"
JoinCRLF(ls) ==
    IF ls = <<>> THEN <<"\r", "\n">>
    ELSE Flatten([i \in 1..Len(ls) |-> ls[i] \o <<"\r", "\n">>])

(***************************************************************************)
(* OFX text: markup                                                        *)
(*                                                                         *)
(* In OFX text a tag is one element of the sequence, the string "<NAME>"   *)
(* or "</NAME>"; the characters between tags are one-character strings as  *)
(* everywhere else, and "&amp;" and "&lt;" are the two entities.  Tags     *)
(* carry no attributes.                                                    *)
(***************************************************************************)
UpperTagNames ==
    {"OFX", "SIGNONMSGSRSV1", "SONRS", "FI", "ORG", "FID", "INTU.BID", "STMTTRNRS",
     "TRNUID", "STMTRS", "BANKACCTFROM", "BANKID", "ACCTID", "BANKTRANLIST",
     "DTSTART", "DTEND", "DTPOSTED", "STMTTRN", "TRNAMT", "FITID", "NAME", "MEMO",
     "LEDGERBAL", "AVAILBAL", "BALAMT", "DTASOF"}

\* Tag names as they appear in mixed-case inputs, with their str.upper().
MixedTagNames == {"ofx", "Ofx", "trnuid", "Name", "stmttrn"}

UpperTagName(n) ==
    CASE n \in {"ofx", "Ofx"} -> "OFX"
      [] n = "trnuid" -> "TRNUID"
      [] n = "Name" -> "NAME"
      [] n = "stmttrn" -> "STMTTRN"
      [] OTHER -> n

TagNames == UpperTagNames \cup MixedTagNames

OpenTag(n) == "<" \o n \o ">"
CloseTag(n) == "</" \o n \o ">"

OpenTags == {OpenTag(n) : n \in TagNames}
CloseTags == {CloseTag(n) : n \in TagNames}
Markup == OpenTags \cup CloseTags

\* The name inside a tag.
TagName(a) ==
    CHOOSE n \in TagNames : a \in {OpenTag(n), CloseTag(n)}

\* The tags in which text.upper() shows "<OFX".
OfxOpeners == {OpenTag(n) : n \in {m \in TagNames : UpperTagName(m) = "OFX"}}

\* text.upper().find("<OFX"): the position of the first such tag, or 0.
FindOfx(s) ==
    IF \E i \in 1..Len(s) : s[i] \in OfxOpeners
    THEN CHOOSE i \in 1..Len(s) :
            s[i] \in OfxOpeners /\ \A j \in 1..(i - 1) : s[j] \notin OfxOpeners
    ELSE 0

(***************************************************************************)
(* sanitize_ofx: repair of the text, lines 326-348                         *)
(***************************************************************************)
\* _escape_ampersands: a bare "&" becomes the entity "&amp;".
EscapeAmpersands(s0) ==
    CHOOSE r \in
        { [i \in 1..Len(s) |-> IF s[i] = "&" THEN "&amp;" ELSE s[i]] : s \in {s0} } : TRUE

\* Lines 330-336: every tag name, opening or closing, is upper-cased.
UpperTags(s0) ==
    CHOOSE r \in
        { [i \in 1..Len(s) |->
              IF s[i] \in OpenTags THEN OpenTag(UpperTagName(TagName(s[i])))
              ELSE IF s[i] \in CloseTags THEN CloseTag(UpperTagName(TagName(s[i])))
              ELSE s[i]]
          : s \in {s0} } : TRUE

\* The position of the last tag before position k of s, or 0.
TagBefore(s, k) ==
    IF \E j \in 1..(k - 1) : s[j] \in Markup
    THEN CHOOSE j \in 1..(k - 1) :
            s[j] \in Markup /\ \A m \in (j + 1)..(k - 1) : s[m] \notin Markup
    ELSE 0

\* The regex of lines 341-346 matches an opening tag, then text that holds
\* a non-whitespace character, when the next "<" does not start the closing
\* tag of that opening tag: true when the tag at position k ends such a match.
NeedsClosing(s, k, j) ==
    /\ s[k] \in Markup
    /\ j > 0
    /\ s[j] \in OpenTags
    /\ \E m \in (j + 1)..(k - 1) : s[m] \notin Whitespace
    /\ s[k] # CloseTag(TagName(s[j]))

\* Lines 341-346: the closing tag is written right after the text.
CloseLeafTags(s0) ==
    CHOOSE r \in
        { Flatten([k \in 1..Len(s) |->
              CHOOSE q \in
                { IF NeedsClosing(s, k, j) THEN <<CloseTag(TagName(s[j])), s[k]>>
                  ELSE <<s[k]>>
                  : j \in {TagBefore(s, k)} } : TRUE])
          : s \in {s0} } : TRUE

\* Lines 326-348 in order: the text from "<OFX" on, newlines normalized,
\* ampersands escaped, tag names upper-cased, leaf tags closed, then
\* NFKD-decomposed and cut down to ASCII.
RepairBody(s, start) ==
    AsciiOnly(Normalize(CloseLeafTags(UpperTags(EscapeAmpersands(
        NormalizeNewlines(SubSeq(s, start, Len(s))))))))

(***************************************************************************)
(* The element tree (xml.etree.ElementTree)                                *)
(*                                                                         *)
(* A node is [tag, text, kids]; text <<>> stands for both None and "",     *)
(* which the program never tells apart.  The text after a child's closing  *)
(* tag (its tail) is never read by the program and is not kept.            *)
(***************************************************************************)
Node(tag, txt, kids) == [tag |-> tag, text |-> txt, kids |-> kids]

NoNode == Node("", <<>>, <<>>)

\* The entity references the parser resolves.
Unescape(c) ==
    CASE c = "&amp;" -> "&"
      [] c = "&lt;" -> "<"
      [] OTHER -> c

\* The document as tokens: each tag, and each run of characters between
\* two tags as one text token.
Tokens(s0) ==
    CHOOSE r \in
        { CHOOSE q \in
            { Flatten([k \in 1..(Len(at) + 1) |->
                  (IF PartOf(s, at, k) # <<>>
                   THEN <<[kind |-> "text", name |-> "", chars |-> PartOf(s, at, k)]>>
                   ELSE <<>>)
                  \o (IF k <= Len(at)
                      THEN <<[kind |-> IF s[at[k]] \in OpenTags THEN "open" ELSE "close",
                              name |-> TagName(s[at[k]]), chars |-> <<>>]>>
                      ELSE <<>>)])
              : at \in {Flatten([i \in 1..Len(s) |-> IF s[i] \in Markup THEN <<i>> ELSE <<>>])} } : TRUE
          : s \in {s0} } : TRUE

\* The parser's state: the elements still open (innermost last), the root
\* once it is closed, and whether the text is well formed so far.
ParseStart == [stack |-> <<>>, root |-> NoNode, closed |-> FALSE, ok |-> TRUE]

ParseFail == [stack |-> <<>>, root |-> NoNode, closed |-> FALSE, ok |-> FALSE]

\* An opening tag: a new element, unless the root is already closed
\* ("junk after document element").
ParseOpen(st, name) ==
    IF st.closed THEN ParseFail
    ELSE [st EXCEPT !.stack = Append(@, Node(name, <<>>, <<>>))]

\* A closing tag: it must close the innermost open element ("mismatched
\* tag"), which joins its parent's children or becomes the root.
ParseClose(st, name) ==
    IF st.stack = <<>> \/ st.stack[Len(st.stack)].tag # name THEN ParseFail
    ELSE IF Len(st.stack) = 1
    THEN [st EXCEPT !.stack = <<>>, !.root = st.stack[1], !.closed = TRUE]
    ELSE [st EXCEPT !.stack =
            [i \in 1..(Len(st.stack) - 1) |->
                IF i = Len(st.stack) - 1
                THEN [st.stack[i] EXCEPT !.kids = Append(@, st.stack[Len(st.stack)])]
                ELSE st.stack[i]]]

\* Characters: outside the root only whitespace is allowed; inside, they
\* are the element's text when it has no child yet, else a tail.
ParseText(st, chars) ==
    IF st.stack = <<>>
    THEN (IF AllIn(chars, Whitespace) THEN st ELSE ParseFail)
    ELSE IF st.stack[Len(st.stack)].kids # <<>> THEN st
    ELSE [st EXCEPT !.stack[Len(st.stack)].text =
            @ \o [i \in 1..Len(chars) |-> Unescape(chars[i])]]

ParseToken(st, tok) ==
    IF ~st.ok THEN st
    ELSE IF tok.kind = "open" THEN ParseOpen(st, tok.name)
    ELSE IF tok.kind = "close" THEN ParseClose(st, tok.name)
    ELSE ParseText(st, tok.chars)

RECURSIVE ParseTokens(_, _, _)
\* The parser's state after the tokens from position i on.
ParseTokens(st0, toks, i) ==
    IF i > Len(toks) THEN st0
    ELSE CHOOSE r \in
            { ParseTokens(st, toks, i + 1) : st \in {ParseToken(st0, toks[i])} } : TRUE

\* ET.fromstring(body): [ok |-> TRUE, root |-> the tree], or ok = FALSE
\* for ET.ParseError.
FromString(s) ==
    CHOOSE r \in
        { CHOOSE q \in
            { [ok |-> st.ok /\ st.closed /\ st.stack = <<>>, root |-> st.root]
              : st \in {ParseTokens(ParseStart, toks, 1)} } : TRUE
          : toks \in {Tokens(s)} } : TRUE

(***************************************************************************)
(* Element paths: a path is the sequence of child indices leading from a   *)
(* node down to one of its descendants.                                    *)
(***************************************************************************)
RECURSIVE PathsOf(_)
\* The paths of all descendants of a node, in document order.
PathsOf(n0) ==
    CHOOSE r \in
        { Flatten([i \in 1..Len(n.kids) |->
              CHOOSE q \in
                { <<<<i>>>> \o [k \in 1..Len(below) |-> <<i>> \o below[k]]
                  : below \in {PathsOf(n.kids[i])} } : TRUE])
          : n \in {n0} } : TRUE

RECURSIVE NodeAt(_, _)
NodeAt(n, p0) ==
    CHOOSE r \in
        { IF p = <<>> THEN n ELSE NodeAt(n.kids[Head(p)], Tail(p)) : p \in {p0} } : TRUE

RECURSIVE ReplaceAt(_, _, _)
\* The tree with the node at path p replaced.
ReplaceAt(n, p0, new) ==
    CHOOSE r \in
        { IF p = <<>> THEN new
          ELSE [n EXCEPT !.kids[Head(p)] = ReplaceAt(n.kids[Head(p)], Tail(p), new)]
          : p \in {p0} } : TRUE

\* node.findall(".//TAG"): the paths of the descendants with that tag.
FindAll(n0, tag) ==
    CHOOSE r \in
        { CHOOSE q \in
            { Flatten([k \in 1..Len(ps) |->
                  IF NodeAt(n, ps[k]).tag = tag THEN <<ps[k]>> ELSE <<>>])
              : ps \in {PathsOf(n)} } : TRUE
          : n \in {n0} } : TRUE

\* node.find("TAG"): the index of the first child with that tag, or 0.
FindChild(n0, tag) ==
    CHOOSE r \in
        { IF \E i \in 1..Len(n.kids) : n.kids[i].tag = tag
          THEN CHOOSE i \in 1..Len(n.kids) :
                  n.kids[i].tag = tag /\ \A j \in 1..(i - 1) : n.kids[j].tag # tag
          ELSE 0
          : n \in {n0} } : TRUE

\* ET.SubElement(node, tag) when node.find(tag) is None: the node with the
\* child it had or the new empty child, and that child's index.
WithChild(n0, tag) ==
    CHOOSE r \in
        { CHOOSE q \in
            { IF i > 0 THEN [node |-> n, at |-> i]
              ELSE [node |-> [n EXCEPT !.kids = Append(@, Node(tag, <<>>, <<>>))],
                    at |-> Len(n.kids) + 1]
              : i \in {FindChild(n, tag)} } : TRUE
          : n \in {n0} } : TRUE

(***************************************************************************)
(* The clock: datetime.utcnow()                                            *)
(***************************************************************************)
\* The instants the clock may show, in order, as "%Y%m%d%H%M%S".
Timestamps ==
    << <<"2", "0", "2", "3", "1", "2", "3", "1", "2", "3", "5", "9", "5", "9">>,
       <<"2", "0", "2", "4", "0", "1", "0", "1", "0", "0", "0", "0", "0", "0">> >>

\* strftime("%Y%m%d")
DateStamp(ts) == SubSeq(ts, 1, 8)

(***************************************************************************)
(* _ensure_trnuid                                                          *)
(***************************************************************************)
\* The text of the first FITID whose text is not blank, as it is written.
FitidFallbackAsWritten(root0) ==
    CHOOSE r \in
        { IF \E k \in 1..Len(fits) : Strip(NodeAt(root0, fits[k]).text) # <<>>
          THEN NodeAt(root0,
                   fits[CHOOSE k \in 1..Len(fits) :
                          /\ Strip(NodeAt(root0, fits[k]).text) # <<>>
                          /\ \A j \in 1..(k - 1) :
                                Strip(NodeAt(root0, fits[j]).text) = <<>>]).text
          ELSE <<>>
          : fits \in {FindAll(root0, "FITID")} } : TRUE

\* Lines 202-206: the stripped text of the first FITID whose text is not
\* blank; <<>> stands for None.
FitidFallback(root0) ==
    CHOOSE r \in
        { CHOOSE q \in
            { IF \E k \in 1..Len(fits) : Strip(NodeAt(root, fits[k]).text) # <<>>
              THEN Strip(NodeAt(root,
                       fits[CHOOSE k \in 1..Len(fits) :
                              /\ Strip(NodeAt(root, fits[k]).text) # <<>>
                              /\ \A j \in 1..(k - 1) :
                                    Strip(NodeAt(root, fits[j]).text) = <<>>]).text)
              ELSE <<>>
              : fits \in {FindAll(root, "FITID")} } : TRUE
          : root \in {root0} } : TRUE

RECURSIVE FillTrnuids(_, _, _, _)
\* Lines 210-212 for the TRNUID paths from position k on.
FillTrnuids(root0, ps, k, fallback) ==
    IF k > Len(ps) THEN root0
    ELSE CHOOSE r \in
            { FillTrnuids(root, ps, k + 1, fallback)
              : root \in { IF Strip(NodeAt(root0, ps[k]).text) = <<>>
                           THEN ReplaceAt(root0, ps[k],
                                    [NodeAt(root0, ps[k]) EXCEPT !.text = fallback])
                           ELSE root0 } } : TRUE

\* _ensure_trnuid(root), given the fallback of lines 202-208.
EnsureTrnuid(root, fallback) ==
    FillTrnuids(root, FindAll(root, "TRNUID"), 1, fallback)

(***************************************************************************)
(* _ensure_balances                                                        *)
(***************************************************************************)
NoPath == <<0>>

\* root.find(".//STMTRS"): the path of the first STMTRS, or NoPath.
FindStmtrs(root) ==
    CHOOSE r \in
        { IF ps = <<>> THEN NoPath ELSE ps[1] : ps \in {FindAll(root, "STMTRS")} } : TRUE

\* node.findtext(".//TAG"): the text of the first such descendant, <<>> also
\* when there is none.
FindText(n0, tag) ==
    CHOOSE r \in
        { CHOOSE q \in
            { IF ps = <<>> THEN <<>> ELSE NodeAt(n, ps[1]).text
              : ps \in {FindAll(n, tag)} } : TRUE
          : n \in {n0} } : TRUE

\* The amount text with its "," kept.
AmountTextWithCommas(trn) ==
    CHOOSE r \in
        { IF i = 0 \/ trn.kids[i].text = <<>> THEN <<"0">> ELSE trn.kids[i].text
          : i \in {FindChild(trn, "TRNAMT")} } : TRUE

\* Line 226: (trn.findtext("TRNAMT") or "0").replace(",", "")
AmountText(trn) ==
    CHOOSE r \in
        { IF i = 0 \/ trn.kids[i].text = <<>> THEN <<"0">>
          ELSE Remove(trn.kids[i].text, {","})
          : i \in {FindChild(trn, "TRNAMT")} } : TRUE

\* A signed number of units of 10^-scale as a float value.
FloatOf(units, scale) ==
    [ok |-> TRUE, neg |-> units < 0, mant |-> IF units < 0 THEN -units ELSE units,
     scale |-> scale]

\* a + b for two float values.
AddFloat(a, b) ==
    LET scale == Max(a.scale, b.scale)
        sa == (IF a.neg THEN -1 ELSE 1) * a.mant * Pow10(scale - a.scale)
        sb == (IF b.neg THEN -1 ELSE 1) * b.mant * Pow10(scale - b.scale)
    IN  FloatOf(sa + sb, scale)

RECURSIVE SumAmounts(_, _, _, _)
\* Lines 224-230 for the STMTTRN paths from position k on: amounts that
\* float() rejects are skipped.
SumAmounts(stmtrs, ps, k, total0) ==
    IF k > Len(ps) THEN total0
    ELSE CHOOSE r \in
            { SumAmounts(stmtrs, ps, k + 1, total)
              : total \in { CHOOSE q \in
                              { IF v.ok THEN AddFloat(total0, v) ELSE total0
                                : v \in {ParseFloat(AmountText(NodeAt(stmtrs, ps[k])))} } : TRUE } } : TRUE

\* The total of the statement, as line 243 formats it.
BalanceText(stmtrs) ==
    FormatTwoDecimals(SumAmounts(stmtrs, FindAll(stmtrs, "STMTTRN"), 1, FloatOf(0, 0)))

\* Lines 240-248 for one balance element.
FilledBalance(balance, amount, dtend) ==
    CHOOSE r \in
        { CHOOSE q \in
            { [wd.node EXCEPT !.kids[wa.at].text = amount, !.kids[wd.at].text = dtend]
              : wd \in {WithChild(wa.node, "DTASOF")} } : TRUE
          : wa \in {WithChild(balance, "BALAMT")} } : TRUE

\* Lines 232-248 for one of the two balance tags.
WithBalance(stmtrs, tag, amount, dtend) ==
    CHOOSE r \in
        { [w.node EXCEPT !.kids[w.at] = FilledBalance(w.node.kids[w.at], amount, dtend)]
          : w \in {WithChild(stmtrs, tag)} } : TRUE

\* Lines 220-222: the effective DTEND, <<>> when the clock has to supply it.
StatementDtend(root0) ==
    CHOOSE r \in
        { CHOOSE q \in
            { IF p = NoPath THEN <<>> ELSE FindText(NodeAt(root, p), "DTEND")
              : p \in {FindStmtrs(root)} } : TRUE
          : root \in {root0} } : TRUE

\* _ensure_balances(root), given the effective DTEND.
EnsureBalances(root0, dtend) ==
    CHOOSE r \in
        { CHOOSE q \in
            { IF p = NoPath THEN root
              ELSE CHOOSE o \in
                { ReplaceAt(root, p,
                      WithBalance(WithBalance(stmtrs, "LEDGERBAL", amount, dtend),
                                  "AVAILBAL", amount, dtend))
                  : amount \in {BalanceText(stmtrs)} } : TRUE
              : stmtrs \in {IF p = NoPath THEN NoNode ELSE NodeAt(root, p)} } : TRUE
          : root \in {root0}, p \in {FindStmtrs(root0)} } : TRUE

(***************************************************************************)
(* _ensure_fi_info                                                         *)
(***************************************************************************)
DefaultBankId == <<"0", "0", "0", "0", "0", "0", "0", "0", "0">>

\* root.findtext(".//BANKACCTFROM/BANKID"): the text of the first BANKID
\* child of a BANKACCTFROM; found = FALSE when there is none.
FindBankIdText(root0) ==
    CHOOSE r \in
        { CHOOSE q \in
            { IF \E k \in 1..Len(ps) : FindChild(NodeAt(root, ps[k]), "BANKID") > 0
              THEN CHOOSE o \in
                { [found |-> TRUE, text |-> from.kids[FindChild(from, "BANKID")].text]
                  : from \in { NodeAt(root, ps[CHOOSE k \in 1..Len(ps) :
                                 /\ FindChild(NodeAt(root, ps[k]), "BANKID") > 0
                                 /\ \A j \in 1..(k - 1) :
                                       FindChild(NodeAt(root, ps[j]), "BANKID") = 0]) } } : TRUE
              ELSE [found |-> FALSE, text |-> <<>>]
              : ps \in {FindAll(root, "BANKACCTFROM")} } : TRUE
          : root \in {root0} } : TRUE

\* Line 256
BankId(root) ==
    CHOOSE r \in
        { IF f.found /\ Strip(f.text) # <<>> THEN Strip(f.text) ELSE DefaultBankId
          : f \in {FindBankIdText(root)} } : TRUE

\* Lines 263-266: ORG and FID are added to FI where they are missing.
FilledFi(fi, org, bankId) ==
    CHOOSE r \in
        { IF FindChild(withOrg, "FID") = 0
          THEN [withOrg EXCEPT !.kids = Append(@, Node("FID", bankId, <<>>))]
          ELSE withOrg
          : withOrg \in { IF FindChild(fi, "ORG") = 0
                          THEN [fi EXCEPT !.kids = Append(@, Node("ORG", org, <<>>))]
                          ELSE fi } } : TRUE

\* Lines 257-271 on the SONRS element.
FilledSonrs(sonrs, bankId) ==
    CHOOSE r \in
        { CHOOSE q \in
            { [wb.node EXCEPT !.kids[wb.at].text = bankId]
              : wb \in { WithChild([wf.node EXCEPT
                                      !.kids[wf.at] = FilledFi(wf.node.kids[wf.at], bankId, bankId)],
                                   "INTU.BID") } } : TRUE
          : wf \in {WithChild(sonrs, "FI")} } : TRUE

\* _ensure_fi_info(root)
EnsureFiInfo(root0) ==
    CHOOSE r \in
        { IF ps = <<>> THEN root
          ELSE ReplaceAt(root, ps[1], FilledSonrs(NodeAt(root, ps[1]), BankId(root)))
          : root \in {root0}, ps \in {FindAll(root0, "SONRS")} } : TRUE

(***************************************************************************)
(* _sanitize_ofx_value, _ofx_element_to_sgml                               *)
(***************************************************************************)
NAME_LIMIT == 32
OFX_MEMO_LIMIT == 255
FITID_LIMIT == 32
TRNUID_LIMIT == 36
ORG_LIMIT == 32
FID_LIMIT == 32

LimitedTags == {"NAME", "MEMO", "FITID", "TRNUID", "ORG", "FID"}

\* _OFX_TAG_LIMITS[tag]
OfxTagLimit(tag) ==
    CASE tag = "NAME" -> NAME_LIMIT
      [] tag = "MEMO" -> OFX_MEMO_LIMIT
      [] tag = "FITID" -> FITID_LIMIT
      [] tag = "TRNUID" -> TRNUID_LIMIT
      [] tag = "ORG" -> ORG_LIMIT
      [] tag = "FID" -> FID_LIMIT

DateTags == {"DTPOSTED", "DTSTART", "DTEND", "DTASOF"}

\* Lines 283-286: the digits of the value, or the value when it has none.
OfxDateValue(raw) ==
    CHOOSE r \in
        { IF digits # <<>> THEN digits ELSE raw : digits \in {Filter(raw, Digits)} } : TRUE

\* Lines 288-292
OfxTextValue(tag, raw) ==
    CHOOSE r \in
        { IF tag \in LimitedTags THEN Trim(sanitized, OfxTagLimit(tag)) ELSE sanitized
          : sanitized \in {Ascii(raw)} } : TRUE

\* _sanitize_ofx_value(tag, value): the text, or ValueError out of
\* _sanitize_amount.
SanitizeOfxValue(tag0, value) ==
    CHOOSE r \in
        { IF raw = <<>> THEN <<>>
          ELSE IF tag = "TRNAMT" THEN SanitizeAmount(raw)
          ELSE IF tag \in DateTags THEN OfxDateValue(raw)
          ELSE OfxTextValue(tag, raw)
          : raw \in {Strip(value)}, tag \in {UpperTagName(tag0)} } : TRUE

\* Lines 303-309: the lines of an element with children.
BranchLines(tag, value, below) ==
    << <<OpenTag(tag)>> >>
    \o (IF value # <<>> THEN <<value>> ELSE <<>>)
    \o below
    \o << <<CloseTag(tag)>> >>

\* A leaf that is written even when its text is empty.
LeafLinesKeepingEmpty(tag, value) == << <<OpenTag(tag)>> \o value >>

\* Lines 310-315: the one line of a leaf, none when its text is empty.
LeafLines(tag, value) ==
    IF value # <<>> THEN << <<OpenTag(tag)>> \o value >> ELSE <<>>

RECURSIVE Walk(_)
\* _walk(node): the lines the node adds, each line a sequence whose first
\* element may be a tag; <<ValueError>> when a value raises.
Walk(node0) ==
    CHOOSE r \in
        { IF value = ValueError THEN <<ValueError>>
          ELSE IF node.kids # <<>>
          THEN CHOOSE q \in
                { IF \E i \in 1..Len(below) : below[i] = <<ValueError>>
                  THEN <<ValueError>>
                  ELSE BranchLines(UpperTagName(node.tag), value, Flatten(below))
                  : below \in {[i \in 1..Len(node.kids) |-> Walk(node.kids[i])]} } : TRUE
          ELSE LeafLines(UpperTagName(node.tag), value)
          : node \in {node0}, value \in {SanitizeOfxValue(node0.tag, node0.text)} } : TRUE

\* The lines of the tree under an XML declaration.
OfxElementToSgmlWithDeclaration(elem) == << <<"<?xml?>">> >> \o Walk(elem)

\* _ofx_element_to_sgml(elem)
OfxElementToSgml(elem) == Walk(elem)

\* _HEADER_TEMPLATE, each line written as one element.
HEADER_TEMPLATE ==
    << <<"OFXHEADER:100">>, <<"DATA:OFXSGML">>, <<"VERSION:102">>, <<"SECURITY:NONE">>,
       <<"ENCODING:USASCII">>, <<"CHARSET:1252">>, <<"COMPRESSION:NONE">>,
       <<"OLDFILEUID:NONE">>, <<"NEWFILEUID:NONE">>, <<>> >>

(***************************************************************************)
(* Bounded inputs                                                          *)
(***************************************************************************)
RECURSIVE SeqsUpTo(_, _)
\* Every sequence over S of length at most n.
SeqsUpTo(S, n) ==
    IF n = 0 THEN {<<>>}
    ELSE LET shorter == SeqsUpTo(S, n - 1)
         IN  shorter \cup {Append(s, c) : s \in {t \in shorter : Len(t) = n - 1}, c \in S}

MaxAmountLen == 4

AmountAlphabet == {"0", "1", "2", ".", "-", ",", "+", " ", "$"}

AmountInputs == SeqsUpTo(AmountAlphabet, MaxAmountLen)

\* Text inputs of _ascii -----------------------------------------------------
\* U0007 is the control character BEL (code point 7).
MaxAsciiLen == 4

AsciiAlphabet == {"a", " ", "\t", "\n", "\r", "^", "U00E9", "UFB01", "U20AC", "U0007"}

AsciiInputs == SeqsUpTo(AsciiAlphabet, MaxAsciiLen)

\* Record inputs of _format_qif_record ----------------------------------------
\* Up to MaxRecordLines lines in any order: two of D, P and A, three of T
\* (one of them no number), a line of every other tag, and a line with a
\* tag outside the allow-list.
MaxRecordLines == 3

RecordLinePool ==
    { <<"D", "0", "1", "/", "1", "5", "/", "2", "0", "2", "3">>,
      <<"D", "2", "0", "2", "4", "-", "0", "2", "-", "2", "9">>,
      <<"T", "5">>,
      <<"T", "-", "7", ".", "5">>,
      <<"T", "1", ".", "2", ".", "3">>,
      <<"P", "A", "c", "m", "e">>,
      <<"P", "B", "o", "b">>,
      <<"M", "m">>,
      <<"L", "c">>,
      <<"N", "1">>,
      <<"A", "a", "1">>,
      <<"A", "a", "2">>,
      <<"S", "s">>,
      <<"$", "3">>,
      <<"X", "u">> }

RecordInputs == SeqsUpTo(RecordLinePool, MaxRecordLines)

\* Date inputs ---------------------------------------------------------------
\* A date text is three numbers written in one of the five patterns, with
\* or without leading zeros and surrounding whitespace.  Month 13 and the
\* days 29 to 32 make texts that are no day of the calendar.
DateYears == {1900, 1969, 2000, 2023, 2024, 2068}

DateMonths == 1..13

DateDays == (1..13) \cup (28..32)

DatePatterns == 1..5

\* n in decimal, with a leading zero when it is padded and below ten.
Written(n, padded) ==
    IF n < 10 /\ ~padded THEN <<DigitChar(n)>>
    ELSE IF n < 100 THEN <<DigitChar(n \div 10), DigitChar(n % 10)>>
    ELSE NatToDigits(n)

\* The numbers (y, m, d) written in pattern p: 1 is MM/DD/YYYY, 2 is
\* MM/DD/YY, 3 is YYYY-MM-DD, 4 is DD/MM/YYYY and 5 is DD-MM-YYYY.
WrittenDate(p, y, m, d, padded) ==
    CASE p = 1 -> Written(m, padded) \o <<"/">> \o Written(d, padded) \o <<"/">> \o Written(y, TRUE)
      [] p = 2 -> Written(m, padded) \o <<"/">> \o Written(d, padded) \o <<"/">> \o Written(y % 100, TRUE)
      [] p = 3 -> Written(y, TRUE) \o <<"-">> \o Written(m, padded) \o <<"-">> \o Written(d, padded)
      [] p = 4 -> Written(d, padded) \o <<"/">> \o Written(m, padded) \o <<"/">> \o Written(y, TRUE)
      [] p = 5 -> Written(d, padded) \o <<"-">> \o Written(m, padded) \o <<"-">> \o Written(y, TRUE)

Surrounded(s, surround) == IF surround THEN <<" ">> \o s \o <<"\t">> ELSE s

PatternedDates ==
    { [raw |-> Surrounded(WrittenDate(p, y, m, d, padded), surround),
       pattern |-> p, y |-> y, m |-> m, d |-> d] :
        p \in DatePatterns, y \in DateYears, m \in DateMonths, d \in DateDays,
        padded \in BOOLEAN, surround \in BOOLEAN }

\* Texts in none of the five patterns (pattern 0).
FreeDateTexts ==
    { <<>>, <<" ">>, <<"a", "b", "c">>,
      <<"2", "0", "2", "3", "/", "0", "1", "/", "1", "5">>,
      <<"0", "1", "-", "1", "5", "-", "2", "3">>,
      <<"0", "1", "/", "1", "5", "/", "2", "0", "2", "3", "x">>,
      <<"1", "/", "2", "/", "3", "/", "4">>,
      <<"0", "1", "/", "1", "5", "/", "0", "0", "0", "0">>,
      <<" ", "J", "a", "n", " ", "5", " ">>,
      <<"0", "1", ".", "1", "5", ".", "2", "0", "2", "3">> }

DateInputs ==
    PatternedDates
    \cup { [raw |-> t, pattern |-> 0, y |-> 0, m |-> 0, d |-> 0] : t \in FreeDateTexts }

\* QIF inputs: general lines ----------------------------------------------
MaxLines == 3

QifLinePool ==
    { <<"!", "T", "y", "p", "e", ":", "B", "a", "n", "k">>,
      <<"!", "T", "y", "p", "e">>,
      <<"^">>,
      <<"D", "0", "1", "/", "1", "5", "/", "2", "0", "2", "3">>,
      <<"D", "1", "3", "/", "4", "5", "/", "2", "0", "2", "3">>,
      <<"T", "1", ",", "2", "3", "4", ".", "5", "6">>,
      <<"T", "1", ".", "2", ".", "3">>,
      <<"P", "A", "c", "m", "e">>,
      <<"X", "u">>,
      <<>> }

LineTerminators == { <<"\n">>, <<"\r", "\n">>, <<"\r">> }

JoinWith(ls0, sep) ==
    CHOOSE r \in
        { Flatten([i \in 1..Len(ls) |-> IF i < Len(ls) THEN ls[i] \o sep ELSE ls[i]])
          : ls \in {ls0} } : TRUE

\* Up to MaxLines lines ended by "\n"; the shorter ones also with the other
\* two terminators.
GeneralQifTexts ==
    { JoinWith(ls, <<"\n">>) : ls \in SeqsUpTo(QifLinePool, MaxLines) }
    \cup { JoinWith(ls, term) :
             ls \in SeqsUpTo(QifLinePool, MaxLines - 1), term \in LineTerminators }

\* QIF inputs: one record of splits ----------------------------------------
\* Each split is written S, E, O, $ with any of the four left out; the
\* values of the Nth split all end in the digit N.
MaxSplits == 2

SplitShapes == (SUBSET {"S", "E", "O", "$"}) \ {{}}

SplitValue(tag, n) ==
    CASE tag = "S" -> <<"c", DigitChar(n)>>
      [] tag = "E" -> <<"m", DigitChar(n)>>
      [] tag = "O" -> <<DigitChar(n)>>
      [] tag = "$" -> <<"1", DigitChar(n)>>

\* The input lines of the Nth split, of the given shape.
SplitEntries(shape, n) ==
    LET one(tag) == IF tag \in shape THEN << <<tag>> \o SplitValue(tag, n) >> ELSE <<>>
    IN  one("S") \o one("E") \o one("O") \o one("$")

\* The input lines of a record whose Nth split has the shape shapes[N].
SplitRecordEntries(shapes) ==
    Flatten([n \in 1..Len(shapes) |-> SplitEntries(shapes[n], n)])

SplitQifTexts ==
    { JoinWith(SplitRecordEntries(shapes) \o << <<"^">> >>, <<"\n">>) :
        shapes \in SeqsUpTo(SplitShapes, MaxSplits) \ {<<>>} }

\* QIF inputs: fields at and over their limits -----------------------------
MaxLongLines == 2

\* n characters "1234567890123...": position i holds the digit i mod 10.
Cycle(n) == [i \in 1..n |-> DigitChar(i % 10)]

LongQifLines ==
    { <<"P">> \o Cycle(PAYEE_LIMIT), <<"P">> \o Cycle(PAYEE_LIMIT + 1),
      <<"M">> \o Cycle(MEMO_LIMIT), <<"M">> \o Cycle(MEMO_LIMIT + 1),
      <<"A">> \o Cycle(ADDRESS_LIMIT), <<"A">> \o Cycle(ADDRESS_LIMIT + 1),
      <<"L">> \o Cycle(MEMO_LIMIT + 1), <<"N">> \o Cycle(MEMO_LIMIT + 1),
      \* a blank right where the field is cut
      <<"A">> \o Cycle(ADDRESS_LIMIT - 1) \o <<" ", "b">> }

LongQifTexts ==
    { JoinWith(ls, <<"\n">>) : ls \in SeqsUpTo(LongQifLines, MaxLongLines) \ {<<>>} }

\* QIF inputs: fields with characters outside ASCII --------------------------
UnicodeQifLines ==
    { <<"!", "T", "y", "p", "e", ":", "U00E9", "UFB01">>,
      <<"D", "1", "U00E9">>,
      <<"T", "1", "U20AC">>,
      <<"P", "c", "a", "f", "U00E9">>,
      <<"L", "UFB01", "U20AC">>,
      <<"S", "U00C9", "U0007">> }

UnicodeQifTexts ==
    { JoinWith(ls, <<"\n">>) : ls \in SeqsUpTo(UnicodeQifLines, MaxLongLines) \ {<<>>} }

QifTexts == GeneralQifTexts \cup SplitQifTexts \cup LongQifTexts \cup UnicodeQifTexts

\* OFX inputs ---------------------------------------------------------------
\* Documents are written with these builders.  A leaf is given its text,
\* or Absent to leave the element out.  In the "xml" style every leaf has
\* its closing tag; in the "sgml" style no leaf has one and its line ends
\* with a line break.
Absent == <<"!absent">>

Styles == {"xml", "sgml"}

Leaf(tag, txt, style) ==
    IF txt = Absent THEN <<>>
    ELSE IF style = "xml" THEN <<OpenTag(tag)>> \o txt \o <<CloseTag(tag), "\n">>
    ELSE <<OpenTag(tag)>> \o txt \o <<"\n">>

Branch(tag, content) == <<OpenTag(tag), "\n">> \o content \o <<CloseTag(tag), "\n">>

\* OFX inputs: transaction ids ---------------------------------------------
TrnuidPool ==
    { Absent, <<>>, <<" ">>, <<"U", "1">>, Cycle(TRNUID_LIMIT), Cycle(TRNUID_LIMIT + 1) }

FitidPool ==
    { Absent, <<>>, <<" ">>, <<"^">>, <<"F", "1">>, <<" ", "F", " ", "2", " ">>,
      <<"U20AC">>, Cycle(TRNUID_LIMIT + 1) }

TrnuidDoc(tu, f1, f2, style) ==
    Branch("OFX",
        Branch("STMTTRNRS",
            Leaf("TRNUID", tu, style)
            \o Branch("BANKTRANLIST",
                   Branch("STMTTRN", Leaf("FITID", f1, style) \o Leaf("NAME", <<"n">>, style))
                   \o Branch("STMTTRN", Leaf("NAME", <<"m">>, style) \o Leaf("FITID", f2, style)))))

TrnuidTexts ==
    { TrnuidDoc(tu, f1, f2, style) :
        tu \in TrnuidPool, f1 \in FitidPool, f2 \in FitidPool, style \in Styles }

\* OFX inputs: statements ----------------------------------------------------
MaxTrns == 2

\* The TRNAMT of a transaction; Absent is a STMTTRN without TRNAMT.
TrnamtPool ==
    { Absent, <<>>, <<"1", "0", ".", "5", "0">>, <<"-", "3", ".", "2", "5">>,
      <<"1", ",", "2", "3", "4", ".", "5", "6">>, <<"a", "b", "c">>,
      <<"1", ".", "2", ".", "3">>, <<"$", "5">>, <<" ", "+", "7", " ">> }

DtendPool ==
    { Absent, <<>>, <<" ">>, <<"2", "0", "2", "3", "1", "1", "3", "0">>,
      <<"2", "0", "2", "3", "-", "1", "1", "-", "3", "0">>, <<"x">> }

\* What the statement already has of its two balances.
BalanceShapes == {"none", "ledger", "ledger date", "avail empty", "both"}

OldAmount == <<"9", "9", ".", "9", "9">>
OldDate == <<"2", "0", "2", "0", "0", "1", "0", "1">>

Balances(shape) ==
    CASE shape = "none" -> <<>>
      [] shape = "ledger" ->
            Branch("LEDGERBAL", Leaf("BALAMT", OldAmount, "xml") \o Leaf("DTASOF", OldDate, "xml"))
      [] shape = "ledger date" -> Branch("LEDGERBAL", Leaf("DTASOF", OldDate, "xml"))
      [] shape = "avail empty" -> <<OpenTag("AVAILBAL"), CloseTag("AVAILBAL"), "\n">>
      [] shape = "both" ->
            Branch("LEDGERBAL", Leaf("BALAMT", OldAmount, "xml") \o Leaf("DTASOF", OldDate, "xml"))
            \o Branch("AVAILBAL", Leaf("DTASOF", OldDate, "xml") \o Leaf("BALAMT", OldAmount, "xml"))

Transactions(amounts) ==
    Flatten([i \in 1..Len(amounts) |->
        Branch("STMTTRN", Leaf("TRNAMT", amounts[i], "xml") \o Leaf("NAME", <<"n">>, "xml"))])

Statement(dtend, amounts, shape) ==
    Branch("STMTRS",
        Branch("BANKTRANLIST", Leaf("DTEND", dtend, "xml") \o Transactions(amounts))
        \o Balances(shape))

\* Up to MaxTrns transactions in a statement without DTEND or with a plain
\* one; the other forms of DTEND with at most one transaction.
StatementTexts ==
    { Branch("OFX", Statement(dtend, amounts, "none")) :
        dtend \in {Absent, <<"2", "0", "2", "3", "1", "1", "3", "0">>},
        amounts \in SeqsUpTo(TrnamtPool, MaxTrns) }
    \cup { Branch("OFX", Statement(dtend, amounts, "none")) :
             dtend \in DtendPool, amounts \in SeqsUpTo(TrnamtPool, 1) }

BalanceTexts ==
    { Branch("OFX", Statement(dtend, << <<"1", "0", ".", "5", "0">> >>, shape) \o second) :
        dtend \in {Absent, <<"2", "0", "2", "3", "1", "1", "3", "0">>},
        shape \in BalanceShapes,
        second \in {<<>>, Statement(OldDate, << <<"-", "3", ".", "2", "5">> >>, "none")} }

\* OFX inputs: financial institution ----------------------------------------
FiShapes == {"none", "empty", "org", "fid", "both"}

OldOrg == <<"X">>
OldFid == <<"Y">>

Fi(shape) ==
    CASE shape = "none" -> <<>>
      [] shape = "empty" -> <<OpenTag("FI"), CloseTag("FI"), "\n">>
      [] shape = "org" -> Branch("FI", Leaf("ORG", OldOrg, "xml"))
      [] shape = "fid" -> Branch("FI", Leaf("FID", OldFid, "xml"))
      [] shape = "both" -> Branch("FI", Leaf("FID", OldFid, "xml") \o Leaf("ORG", OldOrg, "xml"))

IntuBidPool == { Absent, <<>>, <<"7", "7", "7">> }

\* The BANKID of the account; "no account" is a document without BANKACCTFROM.
NoAccount == <<"!no account">>

BankIdPool ==
    { NoAccount, Absent, <<>>, <<" ">>, <<"1", "2", "3">>, <<" ", "4", "5", " ">>,
      Cycle(ORG_LIMIT + 1) }

Account(bankId) ==
    IF bankId = NoAccount THEN <<>>
    ELSE Branch("STMTTRNRS",
             Branch("BANKACCTFROM",
                 Leaf("BANKID", bankId, "xml") \o Leaf("ACCTID", <<"9">>, "xml")))

FiDoc(shape, intuBid, bankId) ==
    Branch("OFX",
        Branch("SIGNONMSGSRSV1",
            Branch("SONRS",
                Leaf("DTASOF", OldDate, "xml") \o Fi(shape) \o Leaf("INTU.BID", intuBid, "xml")))
        \o Account(bankId))

FiTexts ==
    { FiDoc(shape, intuBid, bankId) :
        shape \in FiShapes, intuBid \in IntuBidPool, bankId \in BankIdPool }
    \cup { Branch("OFX", Account(bankId)) : bankId \in BankIdPool }

\* OFX inputs: fields at and over their limits, and a long unlimited field ---
LongOfxTexts ==
    { Branch("OFX", Branch("STMTTRN", Leaf(tag, Cycle(OfxTagLimit(tag) + over), style))) :
        tag \in LimitedTags, over \in {0, 1}, style \in Styles }
    \cup { Branch("OFX", Branch("STMTTRN", Leaf("ACCTID", Cycle(OFX_MEMO_LIMIT + 1), "xml"))) }

\* OFX inputs: shapes of markup ----------------------------------------------
\* What an export may write before the root: a header, an XML declaration.
Preambles ==
    { <<>>,
      <<"O", "F", "X", "H", "E", "A", "D", "E", "R", ":", "1", "0", "0", "\r", "\n", "\r", "\n">>,
      <<"<?xml?>", "\n">> }

Acme == <<"A", "c", "m", "e">>

MarkupBodies ==
    { \* a complete document, twice: leaves closed, leaves open
      Branch("OFX", Branch("STMTTRN", Leaf("NAME", Acme, "xml") \o Leaf("MEMO", <<"p", "a", "y">>, "xml"))),
      Branch("OFX", Branch("STMTTRN", Leaf("NAME", Acme, "sgml") \o Leaf("MEMO", <<"p", "a", "y">>, "sgml"))),
      \* mixed-case tag names
      <<"<ofx>", "<stmttrn>", "<Name>">> \o Acme \o <<"</stmttrn>", "</Ofx>">>,
      <<"<Ofx>", "<Name>">> \o Acme \o <<"</Name>", "</ofx>">>,
      \* ampersands, bare and as an entity; a "<" as an entity
      Branch("OFX", Leaf("NAME", <<"A", "&", "B">>, "xml")),
      Branch("OFX", Leaf("NAME", <<"A", "&amp;", "B">>, "sgml")),
      Branch("OFX", Leaf("NAME", <<"A", "&lt;", "B">>, "xml")),
      \* text that sanitizes to nothing
      Branch("OFX", Leaf("NAME", <<"^">>, "xml") \o Leaf("MEMO", <<"U20AC">>, "sgml")),
      Branch("OFX", Leaf("NAME", <<>>, "xml")),
      Branch("OFX", Branch("STMTTRN", Leaf("NAME", <<" ">>, "xml"))),
      \* accents, ligatures, line breaks and tabs inside text
      Branch("OFX", Leaf("NAME", <<"C", "a", "f", "U00E9", " ", "UFB01", "n">>, "xml")),
      Branch("OFX", Leaf("MEMO", <<"a", "\r", "\n", "b", "\t", "\t", "c", "^", "d">>, "xml")),
      \* an element with both text and children
      <<"<OFX>", "<STMTTRN>", "t", "x", "t", "<NAME>">> \o Acme \o <<"</NAME>", "</STMTTRN>", "</OFX>">>,
      <<"<OFX>", "<STMTTRN>", "^", "<NAME>">> \o Acme \o <<"</NAME>", "</STMTTRN>", "</OFX>">>,
      \* dates and amounts as leaves
      Branch("OFX", Leaf("DTPOSTED", <<"2", "0", "2", "3", "-", "0", "1", "-", "1", "5">>, "sgml")
                    \o Leaf("DTSTART", <<"n", "/", "a">>, "xml")
                    \o Leaf("TRNAMT", <<"1", ",", "2", "3", "4", ".", "5">>, "sgml")),
      Branch("OFX", Leaf("DTASOF", <<"1", "^", "2">>, "xml") \o Leaf("TRNAMT", <<"-">>, "xml")),
      \* a date without a digit, on two lines
      Branch("OFX", Leaf("DTEND", <<"n", "\n", "a">>, "xml")),
      \* several TRNUID, blank and not, with a FITID after them and without
      Branch("OFX", Leaf("TRNUID", <<" ">>, "xml") \o Leaf("TRNUID", <<"U", "1">>, "xml")
                    \o Branch("STMTTRN", Leaf("TRNUID", <<>>, "xml")
                                         \o Leaf("FITID", <<" ", "F", " ", "2", " ">>, "xml"))),
      Branch("OFX", Leaf("TRNUID", <<" ", "U", "2">>, "xml")
                    \o Branch("STMTTRN", Leaf("TRNUID", <<>>, "xml") \o Leaf("TRNUID", <<"\t">>, "xml"))),
      \* text that reads as a tag once its entity is resolved
      Branch("OFX", Leaf("STMTRS", <<"&lt;", "/", "O", "F", "X", ">">>, "xml")),
      Branch("OFX", Leaf("NAME", <<"&lt;", "M", "E", "M", "O", ">">>, "xml")),
      \* the root alone
      <<"<OFX>", "</OFX>">>,
      <<"<OFX>", "</OFX>", "\n", " ">>,
      \* text that does not form a tree
      <<"<OFX>">>,
      <<"<OFX>", "<NAME>">> \o Acme,
      <<"<OFX>", "<STMTTRN>", "</OFX>">>,
      <<"<OFX>", "</STMTTRN>", "</OFX>">>,
      <<"<OFX>", "</OFX>", "x">>,
      <<"<OFX>", "</OFX>", "<OFX>", "</OFX>">>,
      <<"<OFX>", "</OFX>", "</OFX>">>,
      <<"<OFX>", "<NAME>", "\n", "<MEMO>", "m", "</MEMO>", "</OFX>">>,
      <<"<OFX>", "<NAME>">> \o Acme \o <<"<MEMO>", "m", "</NAME>", "</OFX>">> }

MarkupTexts == { pre \o doc : pre \in Preambles, doc \in MarkupBodies }

\* OFX inputs: documents in their two forms ----------------------------------
\* A tag name as a legacy export may write it.
LegacyName(n) ==
    CASE n = "OFX" -> "ofx"
      [] n = "NAME" -> "Name"
      [] n = "STMTTRN" -> "stmttrn"
      [] n = "TRNUID" -> "trnuid"
      [] OTHER -> n

NameIn(n, style) == IF style = "sgml" THEN LegacyName(n) ELSE n

\* An element with children and a leaf, in the legacy form ("sgml": names
\* in mixed case, leaves not closed) or the closed form ("xml").
Aggregate(n, content, style) == Branch(NameIn(n, style), content)
Field(n, txt, style) == Leaf(NameIn(n, style), txt, style)

\* Documents all of whose leaves have text that is not blank.
FormedDocs(style) ==
    << Aggregate("OFX", Aggregate("STMTTRN",
            Field("NAME", Acme, style) \o Field("MEMO", <<"p", "a", "y">>, style), style), style),
       Aggregate("OFX", Field("NAME", <<"A", "&", "B">>, style)
            \o Field("NAME", <<" ", "b", " ">>, style), style),
       Aggregate("OFX", Aggregate("STMTTRNRS",
            Field("TRNUID", <<"U", "1">>, style)
            \o Aggregate("STMTTRN", Field("FITID", <<"F", "1">>, style)
                                    \o Field("TRNAMT", <<"1", ",", "5">>, style), style),
            style), style),
       Aggregate("OFX", Aggregate("STMTRS", Aggregate("BANKTRANLIST",
            Field("DTEND", <<"2", "0", "2", "3", "-", "1", "1", "-", "3", "0">>, style),
            style), style), style),
       Aggregate("OFX", Aggregate("STMTRS", Field("MEMO", <<"a", "\n", "b">>, style), style),
            style),
       \* an element whose last child is a leaf of its own name
       Aggregate("OFX", Aggregate("NAME", Field("NAME", <<"a">>, style), style), style),
       Aggregate("OFX", Aggregate("MEMO", Field("NAME", <<"a">>, style)
                                          \o Field("MEMO", <<"b">>, style), style), style) >>

FormedPairs ==
    { [legacy |-> FormedDocs("sgml")[i], closed |-> FormedDocs("xml")[i]]
      : i \in 1..Len(FormedDocs("xml")) }

FormedTexts == { p.legacy : p \in FormedPairs } \cup { p.closed : p \in FormedPairs }

OfxTexts ==
    TrnuidTexts \cup StatementTexts \cup BalanceTexts \cup FiTexts \cup LongOfxTexts
    \cup MarkupTexts \cup FormedTexts

\* Texts without "<OFX", given to sanitize_ofx directly.
RootlessTexts ==
    { <<>>, <<"<STMTTRN>", "</STMTTRN>">>, <<"O", "F", "X">>, Acme,
      <<"!", "T", "y", "p", "e", ":", "B", "a", "n", "k", "\n", "^">> }

(***************************************************************************)
(* Specification of _sanitize_amount applied to bounded inputs             *)
(***************************************************************************)
Idle ==
    /\ text = <<>>
    /\ lines = <<>>
    /\ idx = 0
    /\ buffer = <<>>
    /\ output = <<>>
    /\ header = <<>>
    /\ result = <<>>
    /\ body = <<>>
    /\ tree = NoNode
    /\ parsed = NoNode
    /\ clock = 0

InitAmount ==
    /\ pc = "call"
    /\ arg \in AmountInputs
    /\ ret = <<>>
    /\ Idle

CallSanitizeAmount ==
    /\ pc = "call"
    /\ ret' = SanitizeAmount(arg)
    /\ pc' = IF ret' = ValueError THEN "raised" ELSE "returned"
    /\ UNCHANGED <<arg, text, qifVars, result, ofxVars>>

NextAmount == CallSanitizeAmount

SpecAmount == InitAmount /\ [][NextAmount]_vars

(***************************************************************************)
(* Specification of _format_qif_record applied to bounded inputs           *)
(***************************************************************************)
InitRecord ==
    /\ pc = "call_record"
    /\ arg \in RecordInputs
    /\ ret = <<>>
    /\ Idle

CallFormatQifRecord ==
    /\ pc = "call_record"
    /\ ret' = FormatQifRecord(arg)
    /\ pc' = IF ret' = ValueError THEN "record_raised" ELSE "record_returned"
    /\ UNCHANGED <<arg, text, qifVars, result, ofxVars>>

NextRecord == CallFormatQifRecord

SpecRecord == InitRecord /\ [][NextRecord]_vars

(***************************************************************************)
(* Specification of _sanitize_date applied to bounded inputs               *)
(*                                                                         *)
(* arg holds the text handed to the function (raw) with the pattern and    *)
(* the numbers it was written from.                                        *)
(***************************************************************************)
InitDate ==
    /\ pc = "call_date"
    /\ arg \in DateInputs
    /\ ret = <<>>
    /\ Idle

CallSanitizeDate ==
    /\ pc = "call_date"
    /\ ret' = SanitizeDate(arg.raw)
    /\ pc' = "date_returned"
    /\ UNCHANGED <<arg, text, qifVars, result, ofxVars>>

NextDate == CallSanitizeDate

SpecDate == InitDate /\ [][NextDate]_vars

(***************************************************************************)
(* Specification of sanitize_qif applied to a text and then to its own     *)
(* output                                                                  *)
(***************************************************************************)
RECURSIVE QifLoop(_, _, _, _)
\* Lines 164-188 from line k on, given the buffer and the output so far:
\* the output lines, or ValueError when a record raises.
QifLoop(ls, k, buf, out) ==
    IF k > Len(ls)
    THEN IF buf = <<>> THEN out
         ELSE CHOOSE r \in
                { IF formatted = ValueError THEN ValueError
                  ELSE EmitRecord(out, formatted)
                  : formatted \in {FormatQifRecord(buf)} } : TRUE
    ELSE IF ls[k] = <<>> THEN QifLoop(ls, k + 1, buf, out)
    ELSE IF StartsWith(ls[k], TypePrefix) \/ ls[k] = <<"^">>
    THEN CHOOSE r \in
            { IF formatted = ValueError THEN ValueError
              ELSE IF StartsWith(ls[k], TypePrefix)
              THEN QifLoop(ls, k + 1, <<>>,
                       (IF buf # <<>> THEN EmitRecord(out, formatted) ELSE out)
                       \o <<HeaderLine(ls[k])>>)
              ELSE QifLoop(ls, k + 1, <<>>, EmitRecord(out, formatted))
              : formatted \in {IF buf # <<>> THEN FormatQifRecord(buf) ELSE <<>>} } : TRUE
    ELSE QifLoop(ls, k + 1, Append(buf, ls[k]), out)

\* sanitize_qif(text): the text returned, or ValueError.
SanitizeQif(t) ==
    CHOOSE r \in
        { IF out = ValueError THEN ValueError ELSE JoinCRLF(out)
          : out \in {QifLoop(StrippedLines(t), 1, <<>>, <<>>)} } : TRUE

InitQifTwice ==
    /\ pc = "call_qif"
    /\ arg \in QifTexts
    /\ ret = <<>>
    /\ Idle

\* sanitize_qif(arg)
CallSanitizeQif ==
    /\ pc = "call_qif"
    /\ ret' = SanitizeQif(arg)
    /\ pc' = IF ret' = ValueError THEN "qif_once_raised" ELSE "qif_once"
    /\ UNCHANGED <<arg, text, qifVars, result, ofxVars>>

\* sanitize_qif of what the first call returned
CallSanitizeQifAgain ==
    /\ pc = "qif_once"
    /\ arg' = ret
    /\ ret' = SanitizeQif(ret)
    /\ pc' = IF ret' = ValueError THEN "qif_twice_raised" ELSE "qif_twice"
    /\ UNCHANGED <<text, qifVars, result, ofxVars>>

NextQifTwice == CallSanitizeQif \/ CallSanitizeQifAgain

SpecQifTwice == InitQifTwice /\ [][NextQifTwice]_vars

(***************************************************************************)
(* Specification of _ascii applied to bounded inputs                       *)
(***************************************************************************)
InitAscii ==
    /\ pc = "call_ascii"
    /\ arg \in AsciiInputs
    /\ ret = <<>>
    /\ Idle

CallAscii ==
    /\ pc = "call_ascii"
    /\ ret' = Ascii(arg)
    /\ pc' = "ascii_returned"
    /\ UNCHANGED <<arg, text, qifVars, result, ofxVars>>

NextAscii == CallAscii

SpecAscii == InitAscii /\ [][NextAscii]_vars

(***************************************************************************)
(* sanitize_file, sanitize_qif and sanitize_ofx                            *)
(***************************************************************************)
\* A file is sanitized (sanitize_file), or a text without "<OFX" is handed
\* to sanitize_ofx directly.
Init ==
    /\ \/ pc = "sanitize_file" /\ text \in QifTexts \cup OfxTexts
       \/ pc = "sanitize_ofx" /\ text \in RootlessTexts
    /\ arg = <<>>
    /\ ret = <<>>
    /\ lines = <<>>
    /\ idx = 0
    /\ buffer = <<>>
    /\ output = <<>>
    /\ header = <<>>
    /\ result = <<>>
    /\ body = <<>>
    /\ tree = NoNode
    /\ parsed = NoNode
    /\ clock = 0

\* sanitize_file, lines 374-375: text with "<OFX" goes to sanitize_ofx.
SanitizeFileOfx ==
    /\ pc = "sanitize_file"
    /\ FindOfx(text) > 0
    /\ pc' = "sanitize_ofx"
    /\ UNCHANGED <<fnVars, text, qifVars, result, ofxVars>>

\* sanitize_file, line 378, with lines 158-162 of sanitize_qif.
SanitizeFileQif ==
    /\ pc = "sanitize_file"
    /\ FindOfx(text) = 0
    /\ lines' = StrippedLines(text)
    /\ idx' = 1
    /\ buffer' = <<>>
    /\ output' = <<>>
    /\ header' = <<>>
    /\ pc' = "qif"
    /\ UNCHANGED <<fnVars, text, result, ofxVars>>

InLoop == pc = "qif" /\ idx <= Len(lines)

\* Lines 165-166: a blank line is skipped.
QifSkipBlank ==
    /\ InLoop
    /\ lines[idx] = <<>>
    /\ idx' = idx + 1
    /\ UNCHANGED <<pc, fnVars, text, lines, buffer, output, header, result, ofxVars>>

\* Lines 167-175: a header flushes the buffered record, then is emitted.
QifHeader ==
    /\ InLoop
    /\ StartsWith(lines[idx], TypePrefix)
    /\ \E formatted \in {IF buffer # <<>> THEN FormatQifRecord(buffer) ELSE <<>>} :
           IF formatted = ValueError
           THEN pc' = "qif_raised" /\ UNCHANGED <<idx, buffer, output, header>>
           ELSE /\ header' = HeaderLine(lines[idx])
                /\ output' = (IF buffer # <<>>
                              THEN EmitRecord(output, formatted) ELSE output)
                             \o <<header'>>
                /\ buffer' = <<>>
                /\ idx' = idx + 1
                /\ pc' = pc
    /\ UNCHANGED <<fnVars, text, lines, result, ofxVars>>

\* Lines 176-183: a delimiter flushes the buffered record and is emitted.
QifDelimiter ==
    /\ InLoop
    /\ ~StartsWith(lines[idx], TypePrefix)
    /\ lines[idx] = <<"^">>
    /\ \E formatted \in {IF buffer # <<>> THEN FormatQifRecord(buffer) ELSE <<>>} :
           IF formatted = ValueError
           THEN pc' = "qif_raised" /\ UNCHANGED <<idx, buffer, output>>
           ELSE /\ output' = EmitRecord(output, formatted)
                /\ buffer' = <<>>
                /\ idx' = idx + 1
                /\ pc' = pc
    /\ UNCHANGED <<fnVars, text, lines, header, result, ofxVars>>

\* Line 184: any other line joins the buffer.
QifBufferLine ==
    /\ InLoop
    /\ lines[idx] # <<>>
    /\ ~StartsWith(lines[idx], TypePrefix)
    /\ lines[idx] # <<"^">>
    /\ buffer' = Append(buffer, lines[idx])
    /\ idx' = idx + 1
    /\ UNCHANGED <<pc, fnVars, text, lines, output, header, result, ofxVars>>

\* Lines 186-194: the last record is flushed and the lines are joined.
QifReturn ==
    /\ pc = "qif"
    /\ idx > Len(lines)
    /\ \E formatted \in {IF buffer # <<>> THEN FormatQifRecord(buffer) ELSE <<>>} :
           IF formatted = ValueError
           THEN pc' = "qif_raised" /\ UNCHANGED <<output, result>>
           ELSE /\ output' = IF buffer # <<>>
                             THEN EmitRecord(output, formatted) ELSE output
                /\ result' = JoinCRLF(output')
                /\ pc' = "qif_returned"
    /\ UNCHANGED <<fnVars, text, lines, idx, buffer, header, ofxVars>>

\* sanitize_ofx, lines 322-348: the root is located and the text repaired,
\* or ValueError is raised for a text without "<OFX".
OfxLocate ==
    /\ pc = "sanitize_ofx"
    /\ \E start \in {FindOfx(text)} :
           IF start = 0
           THEN pc' = "ofx_no_root" /\ UNCHANGED body
           ELSE pc' = "ofx_parse" /\ body' = RepairBody(text, start)
    /\ UNCHANGED <<fnVars, text, qifVars, result, tree, parsed, clock>>

\* Lines 349-352: the parser returns the tree, or its error is raised as
\* ValueError.
OfxParse ==
    /\ pc = "ofx_parse"
    /\ \E p \in {FromString(body)} :
           IF p.ok
           THEN pc' = "ensure_trnuid" /\ tree' = p.root /\ parsed' = p.root
           ELSE pc' = "ofx_parse_error" /\ UNCHANGED <<tree, parsed>>
    /\ UNCHANGED <<fnVars, text, qifVars, result, body, clock>>

\* utcnow() shows the instant k: time does not run backwards.
ClockShows(k) == k \in 1..Len(Timestamps) /\ k >= clock

\* Line 354: _ensure_trnuid reads the clock when no FITID gives a fallback.
OfxEnsureTrnuid ==
    /\ pc = "ensure_trnuid"
    /\ \E fallback \in {FitidFallback(tree)} :
           IF fallback # <<>>
           THEN tree' = EnsureTrnuid(tree, fallback) /\ UNCHANGED clock
           ELSE \E k \in 1..Len(Timestamps) :
                   /\ ClockShows(k)
                   /\ clock' = k
                   /\ tree' = EnsureTrnuid(tree, Timestamps[k])
    /\ pc' = "ensure_balances"
    /\ UNCHANGED <<fnVars, text, qifVars, result, body, parsed>>

\* Line 355: _ensure_balances reads the clock when the first STMTRS has no
\* DTEND text.
OfxEnsureBalances ==
    /\ pc = "ensure_balances"
    /\ \E dtend \in {StatementDtend(tree)} :
           IF FindStmtrs(tree) = NoPath
           THEN UNCHANGED <<tree, clock>>
           ELSE IF dtend # <<>>
           THEN tree' = EnsureBalances(tree, dtend) /\ UNCHANGED clock
           ELSE \E k \in 1..Len(Timestamps) :
                   /\ ClockShows(k)
                   /\ clock' = k
                   /\ tree' = EnsureBalances(tree, DateStamp(Timestamps[k]))
    /\ pc' = "ensure_fi_info"
    /\ UNCHANGED <<fnVars, text, qifVars, result, body, parsed>>

\* Line 356
OfxEnsureFiInfo ==
    /\ pc = "ensure_fi_info"
    /\ tree' = EnsureFiInfo(tree)
    /\ pc' = "ofx_serialize"
    /\ UNCHANGED <<fnVars, text, qifVars, result, body, parsed, clock>>

\* Lines 357-359: the tree is written out under the header, unless a value
\* raises ValueError on the way.
OfxSerialize ==
    /\ pc = "ofx_serialize"
    /\ \E sgml \in {OfxElementToSgml(tree)} :
           IF sgml = <<ValueError>>
           THEN pc' = "ofx_value_error" /\ UNCHANGED <<output, result>>
           ELSE /\ output' = HEADER_TEMPLATE \o sgml
                /\ result' = JoinCRLF(output')
                /\ pc' = "ofx_returned"
    /\ UNCHANGED <<fnVars, text, lines, idx, buffer, header, ofxVars>>

Next ==
    \/ SanitizeFileOfx
    \/ SanitizeFileQif
    \/ QifSkipBlank
    \/ QifHeader
    \/ QifDelimiter
    \/ QifBufferLine
    \/ QifReturn
    \/ OfxLocate
    \/ OfxParse
    \/ OfxEnsureTrnuid
    \/ OfxEnsureBalances
    \/ OfxEnsureFiInfo
    \/ OfxSerialize

Spec == Init /\ [][Next]_vars

(***************************************************************************)
(* Properties                                                              *)
(***************************************************************************)
QifFinished == pc \in {"qif_returned", "qif_raised"}

OfxRaised == pc \in {"ofx_no_root", "ofx_parse_error", "ofx_value_error"}

OfxFinished == pc = "ofx_returned" \/ OfxRaised

\* C1: sanitize_qif never raises: every run of it ends by returning a text.
C1_QifNeverRaises == pc # "qif_raised"

\* s matches -?\d+\.\d{2}
IsTwoDecimal(s0) ==
    \A s \in {s0} : \E neg \in {0, 1} :
        /\ Len(s) >= neg + 4
        /\ neg = 1 => s[1] = "-"
        /\ \A i \in (neg + 1)..(Len(s) - 3) : s[i] \in Digits
        /\ s[Len(s) - 2] = "."
        /\ s[Len(s) - 1] \in Digits
        /\ s[Len(s)] \in Digits

\* C2: _sanitize_amount never raises and returns text matching -?\d+\.\d{2},
\* which is 0.00 when the stripped input is empty or "-".
C2_AmountAlwaysTwoDecimals ==
    pc # "call" =>
        /\ pc = "returned"
        /\ IsTwoDecimal(ret)
        /\ Strip(arg) \in {<<>>, <<"-">>} => ret = <<"0", ".", "0", "0">>

SplitTags == {"S", "E", "O", "$"}

\* The tag of a split line and the number of the split its value names.
SplitKey(line) == <<line[1], IF line[1] = "O" THEN line[2] ELSE line[3]>>

\* The split lines among ls, each as its SplitKey.
SplitKeys(ls0) ==
    CHOOSE r \in
        { Flatten([i \in 1..Len(ls) |->
              IF ls[i] # <<>> /\ ls[i][1] \in SplitTags THEN <<SplitKey(ls[i])>> ELSE <<>>])
          : ls \in {ls0} } : TRUE

\* C3: the splits of a record are emitted as they were written: each
\* split's S, E, O and $ lines together and in that order, split after
\* split, also when a split leaves some of its tags out.
C3_SplitsKeepAlignment ==
    (pc = "qif_returned" /\ text \in SplitQifTexts) => SplitKeys(output) = SplitKeys(lines)

\* The lines of the output that open with the tag.
TagLines(tag) ==
    Flatten([i \in 1..Len(output) |->
        IF output[i] # <<>> /\ output[i][1] = OpenTag(tag) THEN <<output[i]>> ELSE <<>>])

IsBlank(txt) == Strip(txt) = <<>>

\* The paths of the elements of the tree with the tag and blank text.
BlankElements(root, tag) ==
    CHOOSE r \in
        { Flatten([k \in 1..Len(ps) |->
              IF IsBlank(NodeAt(root, ps[k]).text) THEN <<ps[k]>> ELSE <<>>])
          : ps \in {FindAll(root, tag)} } : TRUE

\* C4: when the document has a TRNUID with blank text, every TRNUID of the
\* document has its <TRNUID> line, with a value, in the output.
C4_BlankTrnuidFilled ==
    (pc = "ofx_returned" /\ BlankElements(parsed, "TRNUID") # <<>>) =>
        \A written \in {TagLines("TRNUID")} :
            /\ Len(written) = Len(FindAll(parsed, "TRNUID"))
            /\ \A i \in 1..Len(written) : Len(written[i]) > 1

\* How many lines of the output open with the tag, and how many are its
\* closing tag.
OpenCount(tag) ==
    CHOOSE n \in
        { Cardinality({i \in 1..Len(output) : output[i] # <<>> /\ output[i][1] = open})
          : open \in {OpenTag(tag)} } : TRUE

CloseCount(tag) ==
    CHOOSE n \in
        { Cardinality({i \in 1..Len(output) : output[i] = close})
          : close \in {<<CloseTag(tag)>>} } : TRUE

\* The paths of all elements of a tree, the root's first.
AllPaths(root) == << <<>> >> \o PathsOf(root)

\* The elements of a tree.
Elements(root0) ==
    CHOOSE r \in
        { {NodeAt(root, ps[k]) : k \in 1..Len(ps)}
          : root \in {root0}, ps \in {AllPaths(root0)} } : TRUE

HasValue(node) == SanitizeOfxValue(node.tag, node.text) \notin {<<>>, ValueError}

HasChildren(node) == node.kids # <<>>

\* The elements of a tree in document order, each with its tag and with
\* whether it has a value, and children.
Described(root0) ==
    CHOOSE r \in
        { [k \in 1..Len(ps) |->
              CHOOSE d \in
                { [tag |-> node.tag, value |-> HasValue(node), children |-> HasChildren(node)]
                  : node \in {NodeAt(root, ps[k])} } : TRUE]
          : root \in {root0}, ps \in {AllPaths(root0)} } : TRUE

IsWritten(node) == HasChildren(node) \/ HasValue(node)

\* C5 as stated: an element whose sanitized text is empty has neither its
\* opening nor its closing tag in the output, so each tag opens (and closes)
\* at most as many lines as there are elements of that tag with a value.
C5_EmptyElementsAbsent ==
    pc = "ofx_returned" =>
        \A ds \in {Described(tree)} : \A tag \in UpperTagNames :
            \A valued \in {Cardinality({k \in 1..Len(ds) : ds[k].tag = tag /\ ds[k].value})} :
                OpenCount(tag) <= valued /\ CloseCount(tag) <= valued

\* C5 amended: a leaf whose sanitized text is empty is not written at all,
\* and no empty line stands in for it; every other element is written, one
\* with children with its opening and its closing tag whatever its text.
C5_EmptyLeavesAbsent ==
    pc = "ofx_returned" =>
        /\ \A ds \in {Described(tree)} : \A tag \in UpperTagNames :
              /\ OpenCount(tag) =
                    Cardinality({k \in 1..Len(ds) :
                                    ds[k].tag = tag /\ (ds[k].children \/ ds[k].value)})
              /\ CloseCount(tag) =
                    Cardinality({k \in 1..Len(ds) : ds[k].tag = tag /\ ds[k].children})
        /\ \A i \in (Len(HEADER_TEMPLATE) + 1)..Len(output) : output[i] # <<>>

\* A run that returned a document with a leaf whose text ("^", say) is
\* sanitized to nothing, and with leaves that were written.
C5_Witness ==
    /\ pc = "ofx_returned"
    /\ \E node \in Elements(tree) :
          ~HasChildren(node) /\ ~IsBlank(node.text) /\ ~HasValue(node)
    /\ \E node \in Elements(tree) : ~HasChildren(node) /\ HasValue(node)

AfterBalances == pc \in {"ensure_fi_info", "ofx_serialize", "ofx_returned", "ofx_value_error"}

AfterFiInfo == pc \in {"ofx_serialize", "ofx_returned", "ofx_value_error"}

Parent(p) == SubSeq(p, 1, Len(p) - 1)

\* The path leads to a BALAMT or DTASOF of a balance of a statement.
IsBalanceChild(root, p) ==
    /\ Len(p) >= 2
    /\ NodeAt(root, p).tag \in {"BALAMT", "DTASOF"}
    /\ NodeAt(root, Parent(p)).tag \in {"LEDGERBAL", "AVAILBAL"}
    /\ NodeAt(root, Parent(Parent(p))).tag = "STMTRS"

\* C6: _ensure_balances leaves the text of every BALAMT and DTASOF that the
\* document already had under a statement's LEDGERBAL or AVAILBAL unchanged.
C6_ExistingBalancesKept ==
    AfterBalances =>
        \A ps \in {PathsOf(parsed)} : \A k \in 1..Len(ps) :
            IsBalanceChild(parsed, ps[k]) => NodeAt(tree, ps[k]).text = NodeAt(parsed, ps[k]).text

\* The value in hundredths of an amount written as an optional sign,
\* digits and at most two decimals, "," and surrounding blanks ignored;
\* other text is no number.
Hundredths(txt) ==
    LET t == Strip(Remove(txt, {","}))
        signed == t # <<>> /\ t[1] \in {"-", "+"}
        u == IF signed THEN Tail(t) ELSE t
        dot == DotAt(u)
        whole == IF dot = 0 THEN u ELSE SubSeq(u, 1, dot - 1)
        frac == IF dot = 0 THEN <<>> ELSE SubSeq(u, dot + 1, Len(u))
        value == DigitsToNat(whole) * 100
                 + (IF Len(frac) = 0 THEN 0
                    ELSE IF Len(frac) = 1 THEN DigitVal(frac[1]) * 10
                    ELSE DigitsToNat(frac))
    IN  IF AllIn(whole, Digits) /\ AllIn(frac, Digits) /\ Len(frac) <= 2
           /\ Len(whole) + Len(frac) > 0
        THEN [number |-> TRUE, value |-> IF signed /\ t[1] = "-" THEN -value ELSE value]
        ELSE [number |-> FALSE, value |-> 0]

\* The TRNAMT of a transaction in hundredths: 0 when it has none, or a blank
\* one, or one that is no number.
TransactionHundredths(trn) ==
    CHOOSE r \in
        { IF i = 0 THEN 0 ELSE Hundredths(trn.kids[i].text).value
          : i \in {FindChild(trn, "TRNAMT")} } : TRUE

RECURSIVE SumHundredths(_, _, _)
SumHundredths(stmtrs, ps0, k) ==
    CHOOSE r \in
        { IF k > Len(ps) THEN 0
          ELSE TransactionHundredths(NodeAt(stmtrs, ps[k])) + SumHundredths(stmtrs, ps, k + 1)
          : ps \in {ps0} } : TRUE

\* A number of hundredths with two decimals.
TwoDecimalText(h) ==
    LET a == IF h < 0 THEN -h ELSE h
    IN  (IF h < 0 THEN <<"-">> ELSE <<>>)
        \o NatToDigits(a \div 100) \o <<".", DigitChar((a % 100) \div 10), DigitChar(a % 10)>>

\* The balance amount a statement is to get.
StatementTotal(stmtrs) ==
    TwoDecimalText(SumHundredths(stmtrs, FindAll(stmtrs, "STMTTRN"), 1))

\* The balance date a statement is to get: its DTEND, or today's date as the
\* clock showed it.
StatementDate(stmtrs) ==
    IF FindText(stmtrs, "DTEND") # <<>> THEN FindText(stmtrs, "DTEND")
    ELSE IF clock > 0 THEN DateStamp(Timestamps[clock]) ELSE <<>>

LacksBalances(stmtrs) ==
    FindChild(stmtrs, "LEDGERBAL") = 0 /\ FindChild(stmtrs, "AVAILBAL") = 0

\* The statement has the balance, with the amount and the date.
HasBalance(stmtrs, tag, amount, date) ==
    \E i \in 1..Len(stmtrs.kids) :
        /\ i = FindChild(stmtrs, tag)
        /\ \E a \in 1..Len(stmtrs.kids[i].kids), d \in 1..Len(stmtrs.kids[i].kids) :
              /\ a = FindChild(stmtrs.kids[i], "BALAMT")
              /\ d = FindChild(stmtrs.kids[i], "DTASOF")
              /\ stmtrs.kids[i].kids[a].text = amount
              /\ stmtrs.kids[i].kids[d].text = date

\* The statement at path p, which had neither balance, now has both.
BalancesAdded(p) ==
    \A before \in {NodeAt(parsed, p)} :
        LacksBalances(before) =>
            \A after \in {NodeAt(tree, p)}, amount \in {StatementTotal(before)},
               date \in {StatementDate(before)} :
                /\ HasBalance(after, "LEDGERBAL", amount, date)
                /\ HasBalance(after, "AVAILBAL", amount, date)

C8_ExistingFiInfoKept ==
    AfterFiInfo =>
        \A ps \in {PathsOf(parsed)} : \A k \in 1..Len(ps) :
            NodeAt(parsed, ps[k]).tag \in {"ORG", "FID", "INTU.BID"}
                => NodeAt(tree, ps[k]).text = NodeAt(parsed, ps[k]).text

\* C9: sanitize_ofx raises exactly when the text has no "<OFX" or its
\* repaired form does not parse, and then has produced nothing; every text
\* that parses is returned sanitized.
C9_RaisesOnlyOnStructure ==
    OfxFinished =>
        /\ OfxRaised <=> (FindOfx(text) = 0 \/ ~FromString(RepairBody(text, FindOfx(text))).ok)
        /\ OfxRaised => (result = <<>> /\ output = <<>> /\ tree = NoNode)

\* The first n characters of a value, the whole of it when it has no more.
FirstChars(s, n) == IF Len(s) <= n THEN s ELSE SubSeq(s, 1, n)

\* The limits of the QIF tags and of the OFX tags; -1 is no limit.
QifLimit(tag) ==
    CASE tag = "P" -> 80
      [] tag = "M" -> 120
      [] tag = "A" -> 35
      [] OTHER -> -1

OfxLimit(tag) ==
    CASE tag \in {"NAME", "FITID", "ORG", "FID"} -> 32
      [] tag = "MEMO" -> 255
      [] tag = "TRNUID" -> 36
      [] OTHER -> -1

Limited(value, limit) == IF limit < 0 THEN value ELSE FirstChars(value, limit)

\* A value that ASCII folding leaves as it is.
IsPlain(value) == value # <<>> /\ AllIn(value, Digits \cup {"A", "c", "m", "e"})

QifTextTags == {"P", "M", "A", "L", "N"}

OfxTextTags == UpperTagNames \ (DateTags \cup {"TRNAMT"})

\* Every P, M, A, L and N value of the input is plain.
PlainQifInput ==
    \A j \in 1..Len(lines) :
        (lines[j] # <<>> /\ lines[j][1] \in QifTextTags) => IsPlain(Tail(lines[j]))

\* C10, QIF: no P, M or A value is longer than its limit, and when the
\* values of the input are plain each P, M, A, L and N line is a line of
\* the input cut to the limit of its tag, uncut when the tag has none.
QifLimitsHonoured ==
    \A i \in 1..Len(output) :
        (output[i] # <<>> /\ output[i][1] \in QifTextTags) =>
            /\ QifLimit(output[i][1]) >= 0 => Len(output[i]) - 1 <= QifLimit(output[i][1])
            /\ PlainQifInput =>
                  \E j \in 1..Len(lines) :
                      /\ lines[j] # <<>>
                      /\ lines[j][1] = output[i][1]
                      /\ Tail(output[i]) = Limited(Tail(lines[j]), QifLimit(output[i][1]))

\* C10, OFX: no NAME, MEMO, FITID, TRNUID, ORG or FID value is longer than
\* its limit, and each leaf of the tree with a plain value has its line:
\* the value cut to the limit of its tag, uncut when the tag has none.
OfxLimitsHonoured ==
    /\ \A tag \in UpperTagNames :
          \A i \in 1..Len(output) :
              (output[i] # <<>> /\ output[i][1] = OpenTag(tag) /\ OfxLimit(tag) >= 0)
                  => Len(output[i]) - 1 <= OfxLimit(tag)
    /\ \A node \in Elements(tree) :
          (node.kids = <<>> /\ node.tag \in OfxTextTags /\ IsPlain(node.text)) =>
              \E i \in 1..Len(output) :
                  output[i] = <<OpenTag(node.tag)>> \o Limited(node.text, OfxLimit(node.tag))

\* C10: field limits are honoured by truncation, in QIF and in OFX output.
C10_LimitsHonoured ==
    /\ pc = "qif_returned" => QifLimitsHonoured
    /\ pc = "ofx_returned" => OfxLimitsHonoured

\* An OFX document with a NAME one character over its limit and returned
\* with the NAME cut to the limit.
C10_Witness ==
    /\ pc = "ofx_returned"
    /\ \E node \in Elements(tree) : node.tag = "NAME" /\ node.text = Cycle(33)
    /\ TagLines("NAME") = << <<OpenTag("NAME")>> \o Cycle(32) >>

(***************************************************************************)
(* Properties of _sanitize_date                                            *)
(***************************************************************************)
DateReturned == pc = "date_returned"

\* (y, m, d) is a day of the calendar.
IsCalendarDay(y, m, d) == m \in 1..12 /\ d \in 1..DaysIn(y, m)

\* The year a pattern's text names: MM/DD/YY names a year of 1969..2068.
YearWritten(p, y) ==
    IF p = 2 THEN (IF y % 100 >= 69 THEN 1900 + (y % 100) ELSE 2000 + (y % 100)) ELSE y

\* s is MM/DD'YY for month m, day d and a year that is y modulo 100.
ShowsDay(s0, y, m, d) ==
    \A s \in {s0} :
        /\ Len(s) = 8
        /\ s[3] = "/" /\ s[6] = "'"
        /\ \A i \in {1, 2, 4, 5, 7, 8} : s[i] \in Digits
        /\ 10 * DigitVal(s[1]) + DigitVal(s[2]) = m
        /\ 10 * DigitVal(s[4]) + DigitVal(s[5]) = d
        /\ 10 * DigitVal(s[7]) + DigitVal(s[8]) = y % 100

\* The input is a day of the calendar written in one of the five patterns.
ValidDateWritten ==
    /\ arg.pattern \in DatePatterns
    /\ IsCalendarDay(YearWritten(arg.pattern, arg.y), arg.m, arg.d)

\* C11 as stated: for every valid calendar date written in any of the five
\* patterns, the text returned by _sanitize_date denotes the same month,
\* day and year modulo 100.
C11_DateRoundTrip ==
    DateReturned /\ ValidDateWritten => ShowsDay(ret, arg.y, arg.m, arg.d)

\* C11, amended: the same for every valid date written in MM/DD/YYYY,
\* MM/DD/YY, YYYY-MM-DD or DD-MM-YYYY, and in DD/MM/YYYY when its day is
\* above 12 or equal to its month.
C11_UnambiguousDateRoundTrip ==
    /\ DateReturned
    /\ ValidDateWritten
    /\ arg.pattern = 4 => (arg.d > 12 \/ arg.d = arg.m)
    => ShowsDay(ret, arg.y, arg.m, arg.d)

\* A leap day written day first has been returned month first.
C11_Witness ==
    /\ DateReturned
    /\ arg.pattern = 4 /\ arg.y = 2024 /\ arg.m = 2 /\ arg.d = 29
    /\ ret = <<"0", "2", "/", "2", "9", "'", "2", "4">>

Day(y, m, d) == [y |-> y, m |-> m, d |-> d]

\* What the text of the input can be read as, in the order of the patterns
\* it has the shape of: a text with slashes and a four-digit year is read
\* month first, then day first; every other text has one reading.
Readings(a) ==
    CASE a.pattern = 1 -> <<Day(a.y, a.m, a.d), Day(a.y, a.d, a.m)>>
      [] a.pattern = 4 -> <<Day(a.y, a.d, a.m), Day(a.y, a.m, a.d)>>
      [] a.pattern = 2 -> <<Day(YearWritten(2, a.y), a.m, a.d)>>
      [] a.pattern \in {3, 5} -> <<Day(a.y, a.m, a.d)>>
      [] OTHER -> <<>>

IsValidReading(r) == IsCalendarDay(r.y, r.m, r.d)

\* C16: _sanitize_date returns MM/DD'YY for the first of the patterns, in
\* the order MM/DD/YYYY, MM/DD/YY, YYYY-MM-DD, DD/MM/YYYY, DD-MM-YYYY, under
\* which the trimmed input is a day of the calendar (month first when both
\* month first and day first are), and the trimmed input unchanged when
\* there is none.
C16_FirstPatternWins ==
    DateReturned =>
        \A rs \in {Readings(arg)} :
            IF \E i \in 1..Len(rs) : IsValidReading(rs[i])
            THEN \E i \in 1..Len(rs) :
                    /\ IsValidReading(rs[i])
                    /\ \A j \in 1..(i - 1) : ~IsValidReading(rs[j])
                    /\ ShowsDay(ret, rs[i].y, rs[i].m, rs[i].d)
            ELSE ret = Strip(arg.raw)

\* 5 March written day first has been returned as 3 May.
C16_Witness ==
    /\ DateReturned
    /\ arg.pattern = 4 /\ arg.y = 2024 /\ arg.m = 3 /\ arg.d = 5
    /\ ret = <<"0", "5", "/", "0", "3", "'", "2", "4">>

(***************************************************************************)
(* Properties of _ascii                                                    *)
(***************************************************************************)
\* The characters of the inputs with a code point of 0..31 or 127.
ControlChars == {"\t", "\n", "\r", "U0007"}

\* C12: the result of _ascii holds no control character, no "^" and no
\* non-ASCII character, neither starts nor ends with whitespace, and has
\* no two whitespace characters in a row.
C12_AsciiIsClean ==
    pc = "ascii_returned" =>
        /\ \A i \in 1..Len(ret) : ret[i] \notin ControlChars \cup {"^"} \cup NonAscii
        /\ ret # <<>> => ret[1] \notin Whitespace /\ ret[Len(ret)] \notin Whitespace
        /\ \A i \in 1..(Len(ret) - 1) : ~(ret[i] \in Whitespace /\ ret[i + 1] \in Whitespace)

(***************************************************************************)
(* Properties of sanitize_qif                                              *)
(***************************************************************************)
QifReturned == pc = "qif_returned"

\* C13: the text sanitize_qif returns is ASCII-only: no line of it (header,
\* D line, any field line) holds a character outside 7-bit ASCII.
C13_QifOutputIsAscii ==
    QifReturned =>
        /\ \A i \in 1..Len(output) : \A j \in 1..Len(output[i]) : output[i][j] \notin NonAscii
        /\ \A k \in 1..Len(result) : result[k] \notin NonAscii

\* s ends with CRLF, and CR and LF occur in it only as CRLF.
OnlyCrlf(s0) ==
    \A s \in {s0} :
        /\ Len(s) >= 2 /\ s[Len(s) - 1] = "\r" /\ s[Len(s)] = "\n"
        /\ \A k \in 1..Len(s) :
              /\ s[k] = "\n" => k > 1 /\ s[k - 1] = "\r"
              /\ s[k] = "\r" => k < Len(s) /\ s[k + 1] = "\n"

\* Cut at its line ends, s is the lines ls, each followed by a line end
\* (one line end alone when there is no line).
HasLines(s, ls) ==
    SplitOn(Remove(s, {"\r"}), "\n") = (IF ls = <<>> THEN << <<>> >> ELSE ls) \o << <<>> >>

\* C14: the text sanitize_qif returns is its emitted lines joined with CRLF
\* plus a trailing CRLF: it ends with CRLF, every LF follows a CR and every
\* CR is followed by an LF, and no emitted line is blank.
C14_QifLinesEndWithCrlf ==
    QifReturned =>
        /\ OnlyCrlf(result)
        /\ HasLines(result, output)
        /\ \A i \in 1..Len(output) : output[i] # <<>>

\* Lines ended by a bare CR in the input have been returned.
C14_Witness ==
    /\ QifReturned
    /\ \E k \in 1..(Len(text) - 1) : text[k] = "\r" /\ text[k + 1] # "\n"
    /\ Len(output) >= 2

(***************************************************************************)
(* Properties of sanitize_ofx                                              *)
(***************************************************************************)
OfxReturned == pc = "ofx_returned"

\* The header every output starts with: nine lines and a blank line.
FixedHeader ==
    << <<"OFXHEADER:100">>, <<"DATA:OFXSGML">>, <<"VERSION:102">>, <<"SECURITY:NONE">>,
       <<"ENCODING:USASCII">>, <<"CHARSET:1252">>, <<"COMPRESSION:NONE">>,
       <<"OLDFILEUID:NONE">>, <<"NEWFILEUID:NONE">>, <<>> >>

\* The input starts with the preamble pre, and the document follows it.
HasPreamble(pre) == pre # <<>> /\ StartsWith(text, pre)

\* The characters of the preamble pre that the document after it does not
\* hold; line ends apart, and digits apart (the amounts and dates the
\* sanitizer writes have digits of their own).
OnlyInPreamble(pre) ==
    Range(pre) \ (Range(SubSeq(text, Len(pre) + 1, Len(text))) \cup {"\r", "\n"} \cup Digits)

RECURSIVE LineStart(_, _)
\* Where line i starts in a text of the lines ls, each followed by CRLF.
LineStart(ls, i0) ==
    CHOOSE r \in
        { IF i = 1 THEN 1 ELSE LineStart(ls, i - 1) + Len(ls[i - 1]) + 2 : i \in {i0} } : TRUE

\* s is the lines ls, each followed by CRLF, and nothing else.
EachLineThenCrlf(s, ls) ==
    /\ Len(s) = LineStart(ls, Len(ls) + 1) - 1
    /\ \A i \in 1..Len(ls) : \A at \in {LineStart(ls, i)} :
          SubSeq(s, at, at + Len(ls[i]) + 1) = ls[i] \o <<"\r", "\n">>

\* C15: every output of sanitize_ofx is the fixed header followed by the
\* lines of the tree (the root first), each line ended by CRLF, and holds
\* nothing of what precedes the first "<OFX" of the input.
C15_HeaderThenTree ==
    OfxReturned =>
        /\ Len(output) >= Len(FixedHeader)
        /\ SubSeq(output, 1, Len(FixedHeader)) = FixedHeader
        /\ Len(output) > Len(FixedHeader) => output[Len(FixedHeader) + 1][1] = "<OFX>"
        /\ EachLineThenCrlf(result, output)
        /\ \A pre \in Preambles : HasPreamble(pre) =>
              \A c \in OnlyInPreamble(pre) : c \notin Range(result)

\* A document under an XML declaration has been written out.
C15_Witness ==
    /\ OfxReturned
    /\ HasPreamble(<<"<?xml?>", "\n">>)
    /\ Len(output) > Len(FixedHeader)
    /\ "<?xml?>" \notin Range(result)

\* C20: the value written for DTPOSTED, DTSTART, DTEND and DTASOF holds
\* digits only, whatever the non-blank text of the element was.
C20_DateValuesAreDigits ==
    OfxReturned =>
        \A i \in (Len(FixedHeader) + 1)..Len(output) :
            output[i][1] \in {OpenTag(tag) : tag \in {"DTPOSTED", "DTSTART", "DTEND", "DTASOF"}}
                => AllIn(Tail(output[i]), Digits)

IsHeaderLine(line) == StartsWith(line, TypePrefix)

\* KIND: the upper-cased trimmed text after the first ":" of the line, or
\* BANK when the line has no ":" or nothing after it.
KindOf(line0) ==
    CHOOSE r \in
        { IF ~\E k \in 1..Len(line) : line[k] = ":" THEN BANK
          ELSE CHOOSE q \in
            { IF kind = <<>> THEN BANK ELSE kind
              : kind \in {Upper(Strip(SubSeq(line,
                    (CHOOSE k \in 1..Len(line) :
                        line[k] = ":" /\ \A j \in 1..(k - 1) : line[j] # ":") + 1,
                    Len(line))))} } : TRUE
          : line \in {line0} } : TRUE

\* The header line a line beginning with !Type stands for.
HeaderFor(line) == <<"!", "T", "y", "p", "e", ":">> \o KindOf(line)

\* The positions of the header lines among the lines ls.
HeaderPositions(ls0) ==
    CHOOSE r \in
        { Flatten([i \in 1..Len(ls) |-> IF IsHeaderLine(ls[i]) THEN <<i>> ELSE <<>>])
          : ls \in {ls0} } : TRUE

IsDelimiter(line) == line = <<"^">>

\* A line of a record: not blank, no header, no delimiter.
IsTagLine(line) == line # <<>> /\ ~IsHeaderLine(line) /\ ~IsDelimiter(line)

\* Input line k ends a record: a delimiter, or a header that comes right
\* after tag lines (blank lines apart).
EndsRecord(k) ==
    \/ IsDelimiter(lines[k])
    \/ /\ IsHeaderLine(lines[k])
       /\ \E m \in 1..(k - 1) :
             IsTagLine(lines[m]) /\ \A n \in (m + 1)..(k - 1) : lines[n] = <<>>

\* The number of "^" lines among the first i lines of ls.
DelimitersUpTo(ls, i) == Cardinality({k \in 1..i : IsDelimiter(ls[k])})

\* The step of sanitize_qif that handles a header line.
HeaderStep == pc = "qif" /\ idx <= Len(lines) /\ IsHeaderLine(lines[idx]) /\ idx' = idx + 1

\* What a flush appends to the output: nothing for an empty buffer, else
\* the record of the buffered lines and a "^" line.
Flushed(buf) == IF buf = <<>> THEN <<>> ELSE FormatQifRecord(buf) \o << <<"^">> >>

\* C17: a line beginning with !Type first flushes the buffered lines as a
\* record followed by "^", then is emitted as !Type:<KIND>; the headers of
\* the output are those of the input in order, each after the records that
\* preceded it in the input and before those that followed it.
C17_HeaderAfterFlush ==
    /\ [][HeaderStep =>
            /\ output' = output \o Flushed(buffer) \o <<HeaderFor(lines[idx])>>
            /\ buffer' = <<>>]_vars
    /\ [](QifReturned =>
            \A ins \in {HeaderPositions(lines)} : \A outs \in {HeaderPositions(output)} :
                /\ Len(outs) = Len(ins)
                /\ \A n \in 1..Len(ins) :
                      /\ output[outs[n]] = HeaderFor(lines[ins[n]])
                      /\ DelimitersUpTo(output, outs[n]) =
                            Cardinality({k \in 1..ins[n] : EndsRecord(k)}))

\* A header has flushed the record before it: no "^" is in the input, and
\* the output is a header, the record, "^" and the second header.
C17_Witness ==
    /\ QifReturned
    /\ \A k \in 1..Len(lines) : ~IsDelimiter(lines[k])
    /\ Len(output) = 4
    /\ IsHeaderLine(output[1]) /\ IsTagLine(output[2])
    /\ IsDelimiter(output[3]) /\ IsHeaderLine(output[4])

\* The positions of the lines ls that end a record or a run of tag lines:
\* the delimiters and the headers, and the end of the input.
BoundariesOf(ls0) ==
    CHOOSE r \in
        { Flatten([i \in 1..Len(ls) |->
              IF IsDelimiter(ls[i]) \/ IsHeaderLine(ls[i]) THEN <<i>> ELSE <<>>])
          \o <<Len(ls) + 1>>
          : ls \in {ls0} } : TRUE

\* The tag lines of ls after position from and before position to.
TagLinesBetween(ls, from, to) ==
    Flatten([i \in 1..(to - from - 1) |->
        IF IsTagLine(ls[from + i]) THEN <<ls[from + i]>> ELSE <<>>])

\* What the output holds for the tag lines buf and the boundary after them,
\* at position k of ls: the record of buf and "^" (the "^" alone when a
\* delimiter follows no tag line; nothing when a header or the end of the
\* input follows no tag line), then the header if the boundary is one.
OutputFor(ls, buf, k) ==
    IF k > Len(ls) THEN Flushed(buf)
    ELSE IF IsDelimiter(ls[k])
    THEN (IF buf = <<>> THEN <<>> ELSE FormatQifRecord(buf)) \o << <<"^">> >>
    ELSE Flushed(buf) \o <<HeaderFor(ls[k])>>

\* The output of the lines ls, record by record.
RecordsOf(ls0) ==
    CHOOSE r \in
        { CHOOSE q \in
            { Flatten([n \in 1..Len(bs) |->
                  OutputFor(ls, TagLinesBetween(ls, (IF n = 1 THEN 0 ELSE bs[n - 1]), bs[n]),
                            bs[n])])
              : bs \in {BoundariesOf(ls)} } : TRUE
          : ls \in {ls0} } : TRUE

\* The input ends with tag lines that no delimiter follows.
EndsUnflushed ==
    \E m \in 1..Len(lines) :
        IsTagLine(lines[m]) /\ \A n \in (m + 1)..Len(lines) : lines[n] = <<>>

\* C18: the tag lines between two consecutive delimiters or headers of the
\* input form exactly one record of the output, in input order, each record
\* followed by one "^" line; a "^" after no tag line is still emitted; and
\* an input that ends with unflushed tag lines has the output of the same
\* input with a final "^" line.
C18_RecordBoundariesKept ==
    QifReturned =>
        /\ output = RecordsOf(lines)
        /\ EndsUnflushed => output = RecordsOf(Append(lines, <<"^">>))

\* A "^" after no tag line, then tag lines that no delimiter follows.
C18_Witness ==
    /\ QifReturned
    /\ EndsUnflushed
    /\ IsDelimiter(lines[1])
    /\ Len(output) = 3
    /\ IsDelimiter(output[1]) /\ IsTagLine(output[2]) /\ IsDelimiter(output[3])

(***************************************************************************)
(* Properties of _format_qif_record                                        *)
(***************************************************************************)
RecordReturned == pc = "record_returned"

SingleTags == <<"D", "T", "P", "M", "L", "N">>

\* The place of a tag in the canonical record: D, T, P, M, L, N, then the
\* A lines, then the lines of the splits.
Rank(tag) ==
    CASE tag = "D" -> 1 [] tag = "T" -> 2 [] tag = "P" -> 3 [] tag = "M" -> 4
      [] tag = "L" -> 5 [] tag = "N" -> 6 [] tag = "A" -> 7
      [] tag \in SplitTags -> 8
      [] OTHER -> 0

\* The lines of ls with the tag.
LinesWith(ls0, tag) ==
    CHOOSE r \in
        { Flatten([i \in 1..Len(ls) |-> IF ls[i][1] = tag THEN <<ls[i]>> ELSE <<>>])
          : ls \in {ls0} } : TRUE

\* The value emitted for a value of the tag.
FieldValue(tag, value) ==
    CASE tag = "D" -> SanitizeDate(value)
      [] tag = "T" -> SanitizeAmount(value)
      [] tag = "P" -> FirstChars(Ascii(value), 80)
      [] tag = "M" -> FirstChars(Ascii(value), 120)
      [] tag = "A" -> FirstChars(Ascii(value), 35)
      [] OTHER -> Ascii(value)

\* C19: the record emitted by _format_qif_record is canonical whatever the
\* order of the input lines: lines with a tag outside the allow-list add
\* nothing; D, T, P, M, L, N come first, in this order, one line each from
\* the first value of the tag and no line for a tag the input lacks; then
\* every A value in input order; then the lines of the splits.
C19_RecordIsCanonical ==
    RecordReturned =>
        /\ \A i \in 1..Len(ret) : Rank(ret[i][1]) > 0
        /\ \A i \in 1..(Len(ret) - 1) : Rank(ret[i][1]) <= Rank(ret[i + 1][1])
        /\ \A n \in 1..Len(SingleTags) : \A tag \in {SingleTags[n]} :
              \A ins \in {LinesWith(arg, tag)} :
                  LinesWith(ret, tag) =
                      IF ins = <<>> THEN <<>>
                      ELSE << <<tag>> \o FieldValue(tag, Tail(ins[1])) >>
        /\ \A ins \in {LinesWith(arg, "A")} :
              LinesWith(ret, "A") =
                  [k \in 1..Len(ins) |-> <<"A">> \o FieldValue("A", Tail(ins[k]))]
        /\ \A tag \in SplitTags : Len(LinesWith(ret, tag)) = Len(LinesWith(arg, tag))
        /\ Len(ret) = Cardinality({i \in 1..Len(arg) : Rank(arg[i][1]) > 0})
                      - Cardinality({i \in 1..Len(arg) :
                            /\ arg[i][1] \in Range(SingleTags)
                            /\ \E j \in 1..(i - 1) : arg[j][1] = arg[i][1]})

\* A payee, a line of an unknown tag and a date, in this order, have been
\* returned as the date and the payee.
C19_Witness ==
    /\ RecordReturned
    /\ Len(arg) = 3 /\ arg[1][1] = "P" /\ arg[2][1] = "X" /\ arg[3][1] = "D"
    /\ Len(ret) = 2 /\ ret[1][1] = "D" /\ ret[2][1] = "P"

(***************************************************************************)
(* C21: the nesting of the serialized tree                                 *)
(***************************************************************************)
\* The characters of each tag name the serializer writes.
TagSpelling ==
    [n \in UpperTagNames |->
        CASE n = "OFX" -> <<"O", "F", "X">>
          [] n = "SIGNONMSGSRSV1" ->
                <<"S", "I", "G", "N", "O", "N", "M", "S", "G", "S", "R", "S", "V", "1">>
          [] n = "SONRS" -> <<"S", "O", "N", "R", "S">>
          [] n = "FI" -> <<"F", "I">>
          [] n = "ORG" -> <<"O", "R", "G">>
          [] n = "FID" -> <<"F", "I", "D">>
          [] n = "INTU.BID" -> <<"I", "N", "T", "U", ".", "B", "I", "D">>
          [] n = "STMTTRNRS" -> <<"S", "T", "M", "T", "T", "R", "N", "R", "S">>
          [] n = "TRNUID" -> <<"T", "R", "N", "U", "I", "D">>
          [] n = "STMTRS" -> <<"S", "T", "M", "T", "R", "S">>
          [] n = "BANKACCTFROM" ->
                <<"B", "A", "N", "K", "A", "C", "C", "T", "F", "R", "O", "M">>
          [] n = "BANKID" -> <<"B", "A", "N", "K", "I", "D">>
          [] n = "ACCTID" -> <<"A", "C", "C", "T", "I", "D">>
          [] n = "BANKTRANLIST" ->
                <<"B", "A", "N", "K", "T", "R", "A", "N", "L", "I", "S", "T">>
          [] n = "DTSTART" -> <<"D", "T", "S", "T", "A", "R", "T">>
          [] n = "DTEND" -> <<"D", "T", "E", "N", "D">>
          [] n = "DTPOSTED" -> <<"D", "T", "P", "O", "S", "T", "E", "D">>
          [] n = "STMTTRN" -> <<"S", "T", "M", "T", "T", "R", "N">>
          [] n = "TRNAMT" -> <<"T", "R", "N", "A", "M", "T">>
          [] n = "FITID" -> <<"F", "I", "T", "I", "D">>
          [] n = "NAME" -> <<"N", "A", "M", "E">>
          [] n = "MEMO" -> <<"M", "E", "M", "O">>
          [] n = "LEDGERBAL" -> <<"L", "E", "D", "G", "E", "R", "B", "A", "L">>
          [] n = "AVAILBAL" -> <<"A", "V", "A", "I", "L", "B", "A", "L">>
          [] n = "BALAMT" -> <<"B", "A", "L", "A", "M", "T">>
          [] n = "DTASOF" -> <<"D", "T", "A", "S", "O", "F">>]

\* The characters of "<N>" and of "</N>".
OpeningText(n) == <<"<">> \o TagSpelling[n] \o <<">">>
ClosingText(n) == <<"<", "/">> \o TagSpelling[n] \o <<">">>

\* One element of a line as the characters a reader of the file sees: a tag
\* the serializer wrote is no different from the same characters in a text.
Spelled(a) ==
    IF \E n \in UpperTagNames : a = OpenTag(n)
    THEN OpeningText(CHOOSE n \in UpperTagNames : a = OpenTag(n))
    ELSE IF \E n \in UpperTagNames : a = CloseTag(n)
    THEN ClosingText(CHOOSE n \in UpperTagNames : a = CloseTag(n))
    ELSE <<a>>

\* A line of the output as its characters.
AsText(line) == Flatten([k \in 1..Len(line) |-> Spelled(line[k])])

Unbalanced == <<"!Unbalanced">>

RECURSIVE OpenAfter(_)
\* The branching elements still open after the first k lines of the output,
\* the innermost last; Unbalanced once a closing line did not name the
\* innermost open element. A line that is "<N>" alone opens N, a line that
\* is "</N>" closes N, every other line ("<N>text", a text line, a header
\* line) opens and closes nothing.
OpenAfter(k0) ==
    CHOOSE r \in
        { IF k = 0 THEN <<>>
          ELSE CHOOSE q \in
                { IF open = Unbalanced THEN Unbalanced
                  ELSE IF \E n \in UpperTagNames : t = OpeningText(n)
                  THEN Append(open, CHOOSE n \in UpperTagNames : t = OpeningText(n))
                  ELSE IF \E n \in UpperTagNames : t = ClosingText(n)
                  THEN IF open # <<>> /\ t = ClosingText(open[Len(open)])
                       THEN SubSeq(open, 1, Len(open) - 1)
                       ELSE Unbalanced
                  ELSE open
                  : open \in {OpenAfter(k - 1)}, t \in {AsText(output[k])} } : TRUE
          : k \in {k0} } : TRUE

\* C21: in the text sanitize_ofx returns, every closing tag line names the
\* innermost branching element that is still open, and every opened
\* branching element is closed by the end of the text.
C21_WellNested ==
    pc = "ofx_returned" => OpenAfter(Len(output)) = <<>>

(***************************************************************************)
(* C22: the legacy form and the closed form of a document                  *)
(***************************************************************************)
\* sanitize_ofx(t) as one function of the text and of the instants k1 <= k2
\* the clock shows to _ensure_trnuid and to _ensure_balances.
SanitizeOfxAt(t, k1, k2) ==
    IF FindOfx(t) = 0 THEN [kind |-> "ofx_no_root", out |-> <<>>]
    ELSE LET p == FromString(RepairBody(t, FindOfx(t)))
         IN  IF ~p.ok THEN [kind |-> "ofx_parse_error", out |-> <<>>]
             ELSE LET fallback == FitidFallback(p.root)
                      t1 == EnsureTrnuid(p.root,
                                IF fallback # <<>> THEN fallback ELSE Timestamps[k1])
                      dtend == StatementDtend(t1)
                      t2 == IF FindStmtrs(t1) = NoPath THEN t1
                            ELSE EnsureBalances(t1,
                                    IF dtend # <<>> THEN dtend
                                    ELSE DateStamp(Timestamps[k2]))
                      sgml == OfxElementToSgml(EnsureFiInfo(t2))
                  IN  IF sgml = <<ValueError>>
                      THEN [kind |-> "ofx_value_error", out |-> <<>>]
                      ELSE [kind |-> "ofx_returned",
                            out |-> JoinCRLF(HEADER_TEMPLATE \o sgml)]

\* C22: when sanitize_ofx has finished with the legacy form of a document
\* all of whose leaves have text that is not blank (closing tags of leaves
\* left out, tag names in mixed case), it has returned what it returns for
\* the closed form of that document (every leaf closed, names in upper
\* case) under the same readings of the clock, and neither form raises
\* where the other returns.
C22_LegacySameAsClosed ==
    \A p \in FormedPairs :
        (OfxFinished /\ text = p.legacy) =>
            \E k1 \in 1..Len(Timestamps) : \E k2 \in k1..Len(Timestamps) :
                \A closed \in {SanitizeOfxAt(p.closed, k1, k2)} :
                    closed.kind = pc /\ (pc = "ofx_returned" => closed.out = result)

(***************************************************************************)
(* C23: what _ensure_trnuid changes                                        *)
(***************************************************************************)
AfterTrnuid == pc = "ensure_balances"

\* The positions, in document order, of the FITID elements below the root
\* whose text is not blank.
FilledFitids(ps) ==
    {k \in 1..Len(ps) : NodeAt(parsed, ps[k]).tag = "FITID" /\ ~IsBlank(NodeAt(parsed, ps[k]).text)}

IsTimestamp(txt) == Len(txt) = 14 /\ \A i \in 1..Len(txt) : txt[i] \in Digits

\* The text a blank TRNUID is to receive: the trimmed text of the first
\* FITID with text, or else what the clock showed.
TrnuidFill(ps) ==
    IF FilledFitids(ps) # {}
    THEN Strip(NodeAt(parsed, ps[CHOOSE k \in FilledFitids(ps) :
                                    \A j \in FilledFitids(ps) : k <= j]).text)
    ELSE Timestamps[clock]

\* C23: right after _ensure_trnuid the tree has the elements it had, each
\* with its tag; every TRNUID below the root whose text was blank has the
\* trimmed text of the first FITID (in document order) whose text is not
\* blank, or a timestamp of 14 digits when there is no such FITID; every
\* other element, a TRNUID with text included, has the text it had.
C23_OnlyBlankTrnuidsChange ==
    AfterTrnuid =>
        /\ PathsOf(tree) = PathsOf(parsed)
        /\ tree.tag = parsed.tag /\ tree.text = parsed.text
        /\ \A ps \in {PathsOf(parsed)} :
              /\ FilledFitids(ps) = {} =>
                    clock \in 1..Len(Timestamps) /\ IsTimestamp(Timestamps[clock])
              /\ \A k \in 1..Len(ps) :
                    \A was \in {NodeAt(parsed, ps[k])} : \A now \in {NodeAt(tree, ps[k])} :
                        /\ now.tag = was.tag
                        /\ now.text = IF was.tag = "TRNUID" /\ IsBlank(was.text)
                                      THEN TrnuidFill(ps) ELSE was.text

\* A document with two blank TRNUID and one with text, whose only FITID has
\* blanks around its text and comes after them all: both blank TRNUID have
\* the trimmed FITID, the third its own text.
C23_Witness ==
    /\ AfterTrnuid
    /\ \A ps \in {FindAll(parsed, "TRNUID")} :
          /\ Len(ps) = 3
          /\ IsBlank(NodeAt(parsed, ps[1]).text) /\ IsBlank(NodeAt(parsed, ps[3]).text)
          /\ NodeAt(parsed, ps[2]).text = <<"U", "1">>
          /\ NodeAt(tree, ps[1]).text = <<"F", " ", "2">>
          /\ NodeAt(tree, ps[3]).text = <<"F", " ", "2">>
          /\ NodeAt(tree, ps[2]).text = <<"U", "1">>
    /\ FindText(parsed, "FITID") = <<" ", "F", " ", "2", " ">>

(***************************************************************************)
(* C24: sanitize_qif applied to its own output                             *)
(***************************************************************************)
\* C24: when sanitize_qif has returned for a text, sanitize_qif of the text
\* it returned returns too, and returns that same text.
C24_QifIdempotent ==
    /\ pc # "qif_twice_raised"
    /\ pc = "qif_twice" => ret = arg
====
